---- MODULE Spec2Model ----
(***************************************************************************)
(* Log-scale Graph Digitizer (v4.3, src/unnamed/part_003 lines 484-2156):  *)
(* the undo/redo history kept in two React state cells, the background     *)
(* image transform, the guide lists and preset loading.                    *)
(*                                                                         *)
(* React state is modelled by two layers.  The variables history and       *)
(* historyIndex are the state cells: every functional update is applied to *)
(* them in the order it was queued.  The variable rendered holds the       *)
(* values the last render bound into the event handlers' closures          *)
(* (the names `history`, `historyIndex` and `currentState` inside a        *)
(* handler).  Handlers of continuous events (wheel, mousemove) and of      *)
(* asynchronous callbacks (FileReader.onload) leave their updates pending  *)
(* until Render; handlers of discrete events (click, keydown, mousedown)   *)
(* are flushed at the end of the event.                                    *)
(***************************************************************************)
EXTENDS Integers, Sequences, FiniteSets, TLC

(***************************************************************************)
(* Bounds of the model.                                                    *)
(***************************************************************************)
\* updateState calls (commits and overwrites) explored per behaviour
MaxCalls == 3
\* clamp inputs: this many steps of 1/100 on each side of 0 and of 50
MaxClampStep == 10

\* commits explored while editing the background
MaxBgCalls == 2

\* points of a series handed to the interpolation
MaxPoints == 3

\* samples handed to the I2t integration
MaxSamples == 3

(***************************************************************************)
(* JavaScript numbers as exact rationals n/d in lowest terms, d > 0.       *)
(* d = 0 holds the non-finite values: 0/0 is NaN, 1/0 and -1/0 are         *)
(* +Infinity and -Infinity.  d = -1 is `undefined` (a missing property).   *)
(***************************************************************************)
Abs(i) == IF i < 0 THEN -i ELSE i

Sign(i) == IF i < 0 THEN -1 ELSE IF i > 0 THEN 1 ELSE 0

RECURSIVE GCD(_, _)
GCD(a, b) == IF b = 0 THEN a ELSE GCD(b, a % b)

Q(n, d) ==
  IF d = 0 THEN [n |-> Sign(n), d |-> 0]
  ELSE LET g == GCD(Abs(n), Abs(d))
           s == Sign(d)
       IN  [n |-> (s * n) \div g, d |-> (s * d) \div g]

Int2Q(i) == [n |-> i, d |-> 1]

NaN == [n |-> 0, d |-> 0]

Infinity == [n |-> 1, d |-> 0]

Undefined == [n |-> 0, d |-> -1]

IsUndefined(a) == a.d < 0

\* ToNumber: undefined becomes NaN
ToNumber(a) == IF IsUndefined(a) THEN NaN ELSE a

IsNaN(a) == ToNumber(a) = NaN

IsFinite(a) == a.d > 0

\* a ?? b
Nullish(a, b) == IF IsUndefined(a) THEN b ELSE a

\* a < b : false as soon as one side is NaN
Lt(a, b) ==
  LET x == ToNumber(a)
      y == ToNumber(b)
  IN  /\ x # NaN
      /\ y # NaN
      /\ x # y
      /\ IF x.d = 0 THEN x.n < 0
         ELSE IF y.d = 0 THEN y.n > 0
         ELSE LET g == GCD(x.d, y.d)
              IN  x.n * (y.d \div g) < y.n * (x.d \div g)

Le(a, b) == LET x == ToNumber(a)
                y == ToNumber(b)
            IN  x # NaN /\ y # NaN /\ (x = y \/ Lt(x, y))

\* a === b on numbers: NaN equals nothing
StrictEq(a, b) == ~IsNaN(a) /\ ~IsNaN(b) /\ ToNumber(a) = ToNumber(b)

Mul(a, b) == LET x == ToNumber(a)
                 y == ToNumber(b)
             IN  IF x.d = 0 \/ y.d = 0 THEN Q(x.n * y.n, 0)
                 ELSE LET p == Q(x.n, y.d)
                          q == Q(y.n, x.d)
                      IN  Q(p.n * q.n, p.d * q.d)

Add(a, b) ==
  LET x == ToNumber(a)
      y == ToNumber(b)
  IN  IF x = NaN \/ y = NaN THEN NaN
      ELSE IF x.d = 0 /\ y.d = 0 THEN (IF x = y THEN x ELSE NaN)
      ELSE IF x.d = 0 THEN x
      ELSE IF y.d = 0 THEN y
      ELSE LET g == GCD(x.d, y.d)
           IN  Q(x.n * (y.d \div g) + y.n * (x.d \div g), (x.d \div g) * y.d)

Neg(a) == LET x == ToNumber(a) IN [n |-> -x.n, d |-> x.d]

Sub(a, b) == Add(a, Neg(b))

\* a / b: x/0 is an infinity, 0/0 and Infinity/Infinity are NaN
Div(a, b) ==
  LET x == ToNumber(a)
      y == ToNumber(b)
  IN  IF x = NaN \/ y = NaN THEN NaN
      ELSE IF y.d = 0 THEN (IF x.d = 0 THEN NaN ELSE Int2Q(0))
      ELSE IF y.n = 0 THEN (IF x.n = 0 THEN NaN ELSE [n |-> Sign(x.n), d |-> 0])
      ELSE IF x.d = 0 THEN [n |-> x.n * Sign(y.n), d |-> 0]
      ELSE LET p == Q(x.n, y.n)
               q == Q(y.d, x.d)
           IN  Q(p.n * q.n, p.d * q.d)

\* Math.abs
MathAbs(a) == LET x == ToNumber(a) IN [n |-> Abs(x.n), d |-> x.d]

\* Math.max / Math.min: NaN as soon as one argument is NaN
MathMax(a, b) ==
  IF IsNaN(a) \/ IsNaN(b) THEN NaN
  ELSE IF Lt(a, b) THEN ToNumber(b) ELSE ToNumber(a)

MathMin(a, b) ==
  IF IsNaN(a) \/ IsNaN(b) THEN NaN
  ELSE IF Lt(b, a) THEN ToNumber(b) ELSE ToNumber(a)

(***************************************************************************)
(* clampS and the scale limits.                                            *)
(***************************************************************************)
SCALE_MIN == Q(5, 100)

SCALE_MAX == Int2Q(50)

clampS(v) == MathMax(SCALE_MIN, MathMin(SCALE_MAX, v))

InScaleRange(v) == Le(SCALE_MIN, v) /\ Le(v, SCALE_MAX)

(***************************************************************************)
(* AppState: the undoable document.  Series names and colours are left     *)
(* out; a series is its list of points.                                    *)
(***************************************************************************)
IdentityXf == [sx |-> Int2Q(1), sy |-> Int2Q(1), offX |-> Int2Q(0), offY |-> Int2Q(0)]

NullAnchor == [isNull |-> TRUE, ax |-> Int2Q(0), ay |-> Int2Q(0),
               fx |-> Int2Q(0), fy |-> Int2Q(0)]

EmptySeries == [points |-> <<>>]

DEFAULT_X_MIN == Int2Q(10)

DEFAULT_X_MAX == Int2Q(1000000)

DEFAULT_Y_MIN == Q(1, 10000)

DEFAULT_Y_MAX == Int2Q(1000000)

InitialAppState ==
  [xMin |-> DEFAULT_X_MIN, xMax |-> DEFAULT_X_MAX,
   yMin |-> DEFAULT_Y_MIN, yMax |-> DEFAULT_Y_MAX,
   xLog |-> TRUE, yLog |-> TRUE,
   series |-> <<EmptySeries, EmptySeries>>,
   bgXform |-> <<IdentityXf, IdentityXf>>,
   customAnchors |-> <<NullAnchor, NullAnchor>>]

\* what an updater receives when there is no snapshot at all
UndefinedState == [undefined |-> TRUE]

\* selectedPoint: null, or { seriesIndex, pointIndex }
NoSelection == [isNull |-> TRUE, seriesIndex |-> 0, pointIndex |-> 0]

Selected(si, pi) == [isNull |-> FALSE, seriesIndex |-> si, pointIndex |-> pi]

(***************************************************************************)
(* State.                                                                  *)
(***************************************************************************)
VARIABLES
  phase,         \* "start", "effects" (mount effects running), "mounted"
  history,       \* state cell: sequence of AppState snapshots
  historyIndex,  \* state cell: cursor, 0-based as in the code
  rendered,      \* [history, historyIndex] as bound into the handlers' closures
  guideXs,       \* state cell: X guide values, in insertion order
  guideYs,       \* state cell: Y guide values
  bgEditMode,    \* state cell
  keepAspect,    \* state cell
  activeBg,      \* state cell: 0 or 1
  toast,         \* message of the last notify()
  calls,         \* number of updateState calls made so far
  ev,            \* the last handler that ran: [op, arg]
  pre,           \* what was current when that handler started: [cur, guideXs, guideYs]
  born,          \* per snapshot of history: the number of the updateState call that made it
  loadedAt,      \* the number of the last overwriting updateState call (0: the initial state)
  clampPc,       \* clamp self-test: "idle", "once", "twice"
  clampIn,       \* clamp self-test: the input
  clampOut,      \* clamp self-test: clampS(clampIn)
  clampTwice,    \* clamp self-test: clampS(clampOut)
  bgList,        \* state cell: per layer, TRUE once its image has loaded
  pickAnchor,    \* state cell: the next click on the image picks the anchor
  dragRef,       \* ref: [active, startX, startY, baseX, baseY]
  resizeRef,     \* ref: [active, mode, ax, ay, fx, fy, baseW, baseH]
  selectedPoint, \* state cell: null or [seriesIndex, pointIndex], 0-based
  activeSeries,  \* state cell: index of the series that clicks add points to
  i2tSourceIndex, \* state cell: index of the series the I2t panel reads
  ipPc,          \* interpolation: "idle", "yAtX", "xAtY"
  ipPts,         \* interpolation: the series' points
  ipXLog,        \* interpolation: xLog
  ipYLog,        \* interpolation: yLog
  ipTarget,      \* interpolation: the guide value
  ipResult,      \* interpolation: what the guide row shows
  axPc,          \* axis transform: "idle", "toPixel", "toData", "drawn"
  axX,           \* axis transform: [min, max, log] of the x axis
  axY,           \* axis transform: [min, max, log] of the y axis
  axV,           \* axis transform: the data point [x, y]
  axPix,         \* axis transform: dataToPixel(axV.x, axV.y)
  axBack,        \* axis transform: pixelToData(axPix.px, axPix.py)
  axDrawn,       \* axis transform: what the draw effect did
  i2Rows,        \* I2t: the {t, i} rows as entered, in the order entered
  i2Parsed,      \* I2t: parseCsvToSamples of the rows, once parsed
  i2Target,      \* I2t: the target current
  i2Total,       \* I2t: integrateI2t of the samples as passed
  i2TEq,         \* I2t: timeAtEqualI2t of the samples as passed
  ltSource,      \* lifetime curves: the points of the source series
  ltDrops,       \* lifetime curves: [blue, green, red] drop percentages
  ltRefX,        \* lifetime curves: the reference x
  ltRefVal,      \* lifetime curves: interpolateLinear(converted, refX)
  ltResult       \* lifetime curves: buildI2TSeries(source, drops, refX)

histVars == <<history, historyIndex, born, loadedAt>>

clampVars == <<clampPc, clampIn, clampOut, clampTwice>>

bgVars == <<bgList, pickAnchor, dragRef, resizeRef>>

\* activeSeries and i2tSourceIndex
idxVars == <<activeSeries, i2tSourceIndex>>

selVars == <<selectedPoint, activeSeries, i2tSourceIndex>>

appVars == <<phase, history, historyIndex, rendered, guideXs, guideYs,
             bgEditMode, keepAspect, activeBg, toast, calls, ev, pre,
             born, loadedAt, bgList, pickAnchor, dragRef, resizeRef,
             selectedPoint, activeSeries, i2tSourceIndex>>

interpVars == <<ipPc, ipPts, ipXLog, ipYLog, ipTarget, ipResult>>

axisVars == <<axPc, axX, axY, axV, axPix, axBack, axDrawn>>

i2tVars == <<i2Rows, i2Parsed, i2Target, i2Total, i2TEq>>

ltVars == <<ltSource, ltDrops, ltRefX, ltRefVal, ltResult>>

pureVars == <<clampVars, interpVars, axisVars, i2tVars, ltVars>>

guideVars == <<guideXs, guideYs>>

uiVars == <<bgEditMode, keepAspect, activeBg>>

vars == <<phase, history, historyIndex, rendered, guideXs, guideYs,
          bgEditMode, keepAspect, activeBg, toast, calls, ev, pre, born, loadedAt,
          clampPc, clampIn, clampOut, clampTwice,
          bgList, pickAnchor, dragRef, resizeRef,
          selectedPoint, activeSeries, i2tSourceIndex,
          ipPc, ipPts, ipXLog, ipYLog, ipTarget, ipResult,
          axPc, axX, axY, axV, axPix, axBack, axDrawn,
          i2Rows, i2Parsed, i2Target, i2Total, i2TEq,
          ltSource, ltDrops, ltRefX, ltRefVal, ltResult>>

\* history[historyIndex] is defined
Defined(h, i) == 0 <= i /\ i < Len(h)

\* history[historyIndex], 0-based
At(h, i) == h[i + 1]

\* currentState as the handlers see it
currentState == At(rendered.history, rendered.historyIndex)

\* `if (!currentState) return <div>Loading...</div>`: no canvas, no buttons
Mounted == phase = "mounted"

\* activeSeries >= count, resp. i2tSourceIndex >= count, of the clamp effect
IndexBeyond(i, count) == i >= count

\* the clamp effect of the last render has a setter to call: React runs it
\* before the next event is handled
ClampPending ==
  /\ Defined(rendered.history, rendered.historyIndex)
  /\ Len(currentState.series) > 0
  /\ \/ IndexBeyond(activeSeries, Len(currentState.series))
     \/ IndexBeyond(i2tSourceIndex, Len(currentState.series))

UiShown == Mounted /\ Defined(rendered.history, rendered.historyIndex) /\ ~ClampPending

Pending == rendered # [history |-> history, historyIndex |-> historyIndex]

\* history[historyIndex] of the state cells, UndefinedState when out of range
LiveCurrent ==
  IF Defined(history, historyIndex) THEN At(history, historyIndex) ELSE UndefinedState

\* bookkeeping of every handler: which one ran, and what it started from
Event(op, arg) ==
  /\ ev' = [op |-> op, arg |-> arg]
  /\ pre' = [cur |-> LiveCurrent, guideXs |-> guideXs, guideYs |-> guideYs]

Min2(a, b) == IF a < b THEN a ELSE b

\* prev.slice(0, e) for e >= 0
Slice0(s, e) == SubSeq(s, 1, Min2(e, Len(s)))

(***************************************************************************)
(* updateState(updater, overwrite).  The truncation index is the closure's *)
(* historyIndex; the cursor is advanced by a functional update.            *)
(***************************************************************************)
\* historyIndex + 1 inside setHistory's updater: the closure value
TruncateAt(idx) == idx + 1

\* an overwrite that keeps the old snapshots
OverwriteBase_Keep(prev, idx) == Slice0(prev, TruncateAt(idx))

OverwriteBase(prev, idx) == <<>>

\* the snapshots an update keeps
Base(prev, idx, overwrite) ==
  IF overwrite THEN OverwriteBase(prev, idx) ELSE Slice0(prev, TruncateAt(idx))

\* base[base.length - 1] || prev[0]: what the updater is applied to
UpdaterArg(prev, idx, overwrite) ==
  LET base == Base(prev, idx, overwrite)
  IN  IF base # <<>> THEN base[Len(base)]
      ELSE IF prev # <<>> THEN prev[1]
      ELSE UndefinedState

\* the argument the updater of this call will receive
PrevOf(overwrite) == UpdaterArg(history, rendered.historyIndex, overwrite)

\* [...base, next], next being the updater's result
SetHistory(prev, idx, next, overwrite) == Append(Base(prev, idx, overwrite), next)

SetHistoryIndex(i, overwrite) == IF overwrite THEN 0 ELSE i + 1

\* updateState(updater, overwrite), next == updater(PrevOf(overwrite))
updateState(next, overwrite) ==
  /\ calls < MaxCalls
  /\ history' = SetHistory(history, rendered.historyIndex, next, overwrite)
  /\ historyIndex' = SetHistoryIndex(historyIndex, overwrite)
  /\ calls' = calls + 1
  /\ born' = Append(Base(born, rendered.historyIndex, overwrite), calls + 1)
  /\ loadedAt' = (IF overwrite THEN calls + 1 ELSE loadedAt)

\* the synchronous re-render that ends a discrete event
Flush == rendered' = [history |-> history', historyIndex |-> historyIndex']

(***************************************************************************)
(* Render: the scheduled re-render after continuous events and callbacks.  *)
(***************************************************************************)
Render ==
  /\ Mounted
  /\ Pending
  /\ rendered' = [history |-> history, historyIndex |-> historyIndex]
  /\ UNCHANGED <<phase, histVars, guideVars, uiVars, toast, calls, ev, pre>>
  /\ UNCHANGED <<bgVars, selVars, pureVars>>

(***************************************************************************)
(* Undo / redo buttons.                                                    *)
(***************************************************************************)
\* disabled={historyIndex <= 0} on the Undo button
UndoDisabled == rendered.historyIndex <= 0

\* disabled={historyIndex >= history.length - 1} on the Redo button
RedoDisabled == rendered.historyIndex >= Len(rendered.history) - 1

handleUndo ==
  /\ UiShown
  /\ ~UndoDisabled
  /\ IF rendered.historyIndex > 0
     THEN historyIndex' = rendered.historyIndex - 1
     ELSE historyIndex' = historyIndex
  /\ UNCHANGED <<history, born, loadedAt>>
  /\ Event("undo", "")
  /\ UNCHANGED <<phase, guideVars, uiVars, toast, calls>>
  /\ UNCHANGED <<bgVars, selVars, pureVars>>
  /\ Flush

handleRedo ==
  /\ UiShown
  /\ ~RedoDisabled
  /\ IF rendered.historyIndex < Len(rendered.history) - 1
     THEN historyIndex' = rendered.historyIndex + 1
     ELSE historyIndex' = historyIndex
  /\ UNCHANGED <<history, born, loadedAt>>
  /\ Event("redo", "")
  /\ UNCHANGED <<phase, guideVars, uiVars, toast, calls>>
  /\ UNCHANGED <<bgVars, selVars, pureVars>>
  /\ Flush

(***************************************************************************)
(* Wheel zoom on the canvas (continuous event).                            *)
(***************************************************************************)
ZOOM_IN == Q(105, 100)

ZOOM_OUT == Q(95, 100)

WheelXf(xf, k, keep) ==
  LET nsx == clampS(Mul(xf.sx, k))
      nsy == clampS(Mul(xf.sy, k))
  IN  [xf EXCEPT !.sx = nsx, !.sy = IF keep THEN nsx ELSE nsy]

WheelUpdater(prev, k) ==
  [prev EXCEPT !.bgXform[activeBg + 1] = WheelXf(@, k, keepAspect)]

onWheel(deltaNeg) ==
  /\ UiShown
  /\ bgEditMode
  /\ LET k == IF deltaNeg THEN ZOOM_IN ELSE ZOOM_OUT
     IN  updateState(WheelUpdater(PrevOf(FALSE), k), FALSE)
  /\ Event("commit", IF deltaNeg THEN "wheelIn" ELSE "wheelOut")
  /\ UNCHANGED <<phase, rendered, guideVars, uiVars, toast>>
  /\ UNCHANGED <<bgVars, selVars, pureVars>>

(***************************************************************************)
(* Arrow keys in background-edit mode (window keydown listener; no point   *)
(* is selected).                                                           *)
(***************************************************************************)
\* the key presses explored: <<key, shiftKey>>
KeyInputs == {<<"ArrowLeft", FALSE>>, <<"ArrowDown", TRUE>>}

NudgeXf(xf, key, shift) ==
  LET step == Int2Q(IF shift THEN 10 ELSE 1)
      dx == IF key = "ArrowLeft" THEN Neg(step)
            ELSE IF key = "ArrowRight" THEN step ELSE Int2Q(0)
      dy == IF key = "ArrowUp" THEN Neg(step)
            ELSE IF key = "ArrowDown" THEN step ELSE Int2Q(0)
  IN  [xf EXCEPT !.offX = Add(xf.offX, dx), !.offY = Add(xf.offY, dy)]

NudgeUpdater(prev, key, shift) ==
  [prev EXCEPT !.bgXform[activeBg + 1] = NudgeXf(@, key, shift)]

onKeyBg(key, shift) ==
  /\ Mounted
  /\ selectedPoint.isNull
  /\ bgEditMode
  /\ updateState(NudgeUpdater(PrevOf(FALSE), key, shift), FALSE)
  /\ Event("commit", key)
  /\ UNCHANGED <<phase, guideVars, uiVars, toast>>
  /\ UNCHANGED <<bgVars, selVars, pureVars>>
  /\ Flush

(***************************************************************************)
(* Preset payloads.  A payload is what JSON.parse is given: json says      *)
(* whether the text parses ("syntax" does not) and whether it is an object *)
(* ("null" is the JSON text null).  A has/isArray flag of FALSE is a       *)
(* missing property; a number field may hold Undefined.                    *)
(***************************************************************************)
NoAxes == [has |-> FALSE, xMin |-> Undefined, xMax |-> Undefined,
           yMin |-> Undefined, yMax |-> Undefined,
           xLog |-> "undefined", yLog |-> "undefined"]

NoBg == [has |-> FALSE, hasXform |-> FALSE, xform |-> <<IdentityXf, IdentityXf>>,
         hasCustomAnchors |-> FALSE, customAnchors |-> <<NullAnchor, NullAnchor>>,
         keepAspect |-> "undefined", activeBg |-> Undefined]

EmptyPayload ==
  [json |-> "ok", axes |-> NoAxes,
   series |-> [isArray |-> FALSE, items |-> <<>>],
   bg |-> NoBg,
   guidesX |-> [isArray |-> FALSE, items |-> <<>>],
   guidesY |-> [isArray |-> FALSE, items |-> <<>>],
   i2t |-> [has |-> FALSE, sourceIndex |-> Undefined]]

Pt(x, y) == [isNull |-> FALSE, x |-> Int2Q(x), y |-> Int2Q(y)]

NullPt == [isNull |-> TRUE, x |-> Undefined, y |-> Undefined]

PayloadNames == {"empty", "full", "partial", "nullPoint", "i2tFraction", "syntax", "null"}

Payload(name) ==
  CASE name = "empty" -> EmptyPayload
    [] name = "full" ->
         [EmptyPayload EXCEPT
            !.axes = [has |-> TRUE, xMin |-> Int2Q(1), xMax |-> Int2Q(100),
                      yMin |-> Int2Q(1), yMax |-> Int2Q(100),
                      xLog |-> "true", yLog |-> "false"],
            !.series = [isArray |-> TRUE,
                        items |-> <<[pointsIsArray |-> TRUE, points |-> <<Pt(2, 3)>>]>>],
            !.bg = [NoBg EXCEPT !.has = TRUE, !.hasXform = TRUE,
                      !.xform = <<[IdentityXf EXCEPT !.sx = Int2Q(2), !.sy = Int2Q(2)],
                                  IdentityXf>>,
                      !.hasCustomAnchors = TRUE],
            !.guidesX = [isArray |-> TRUE, items |-> <<1>>]]
    [] name = "partial" ->
         [EmptyPayload EXCEPT
            !.axes = [NoAxes EXCEPT !.has = TRUE, !.xMin = Infinity, !.yMax = Int2Q(500),
                                    !.yLog = "true"],
            !.bg = [NoBg EXCEPT !.has = TRUE, !.hasXform = TRUE,
                      !.xform = <<[IdentityXf EXCEPT !.sx = Int2Q(100), !.sy = Q(1, 100)],
                                  IdentityXf>>]]
    [] name = "nullPoint" ->
         [EmptyPayload EXCEPT
            !.axes = [NoAxes EXCEPT !.has = TRUE, !.xMin = Int2Q(1)],
            !.series = [isArray |-> TRUE,
                        items |-> <<[pointsIsArray |-> TRUE, points |-> <<NullPt>>]>>]]
    [] name = "i2tFraction" ->
         [EmptyPayload EXCEPT
            !.axes = [NoAxes EXCEPT !.has = TRUE, !.xMin = Int2Q(1)],
            !.guidesX = [isArray |-> TRUE, items |-> <<2>>],
            !.i2t = [has |-> TRUE, sourceIndex |-> Q(1, 2)]]
    [] name = "nine" ->
         [EmptyPayload EXCEPT
            !.series = [isArray |-> TRUE,
                        items |-> [i \in 1..9 |-> [pointsIsArray |-> TRUE, points |-> <<>>]]],
            !.bg = [NoBg EXCEPT !.has = TRUE, !.hasXform = TRUE, !.hasCustomAnchors = TRUE]]
    [] name = "syntax" -> [EmptyPayload EXCEPT !.json = "syntax"]
    [] name = "null" -> [EmptyPayload EXCEPT !.json = "null"]

(***************************************************************************)
(* applyPreset(p), in the order the code runs.  cur is the closure's       *)
(* currentState, curDefined tells whether it is defined.                   *)
(***************************************************************************)
Truthy(b) == b = "true"

\* !!p.axes?.xLog
PresetLog(b) == Truthy(b)

\* p.bg?.xform ?? currentState.bgXform
PresetXform(p, cur) ==
  IF p.bg.has /\ p.bg.hasXform THEN p.bg.xform ELSE cur.bgXform

PresetSeries(p, cur) ==
  LET raw == IF p.series.isArray
             THEN [i \in 1..Len(p.series.items) |->
                     IF p.series.items[i].pointsIsArray
                     THEN [points |-> [j \in 1..Len(p.series.items[i].points) |->
                                         [x |-> ToNumber(p.series.items[i].points[j].x),
                                          y |-> ToNumber(p.series.items[i].points[j].y)]]]
                     ELSE EmptySeries]
             ELSE cur.series
  IN  Slice0(raw, 10)

\* the exceptions thrown while `next` is built, before any setter is called
ThrowsBuildingNext(p, curDefined) ==
  \/ p.json = "null"
  \/ (~p.series.isArray /\ ~curDefined)
  \/ (p.series.isArray /\
        \E i \in 1..Min2(10, Len(p.series.items)) :
           /\ p.series.items[i].pointsIsArray
           /\ \E j \in 1..Len(p.series.items[i].points) :
                 p.series.items[i].points[j].isNull)
  \/ (~(p.bg.has /\ p.bg.hasXform) /\ ~curDefined)
  \/ (~(p.bg.has /\ p.bg.hasCustomAnchors) /\ ~curDefined)

PresetNext(p, cur) ==
  [xMin |-> Nullish(p.axes.xMin, DEFAULT_X_MIN),
   xMax |-> Nullish(p.axes.xMax, DEFAULT_X_MAX),
   yMin |-> Nullish(p.axes.yMin, DEFAULT_Y_MIN),
   yMax |-> Nullish(p.axes.yMax, DEFAULT_Y_MAX),
   xLog |-> PresetLog(p.axes.xLog),
   yLog |-> PresetLog(p.axes.yLog),
   series |-> PresetSeries(p, cur),
   bgXform |-> PresetXform(p, cur),
   customAnchors |-> IF p.bg.has /\ p.bg.hasCustomAnchors
                     THEN p.bg.customAnchors ELSE cur.customAnchors]

\* next.series[sourceIndex].points with a sourceIndex that is no integer:
\* thrown after updateState and the setters have been called
ThrowsAfterUpdate(p, next) ==
  /\ Len(next.series) > 0
  /\ p.i2t.has
  /\ LET raw == ToNumber(Nullish(p.i2t.sourceIndex, Int2Q(0)))
         idx == MathMax(Int2Q(0),
                        MathMin(Int2Q(Len(next.series) - 1),
                                IF IsFinite(raw) THEN raw ELSE Int2Q(0)))
     IN  idx.d # 1

\* Math.max(0, Math.min(next.series.length - 1, sourceIndexRaw)), an integer
PresetSourceIndex(p, next) ==
  LET raw == ToNumber(Nullish(p.i2t.sourceIndex, Int2Q(0)))
  IN  MathMax(Int2Q(0),
              MathMin(Int2Q(Len(next.series) - 1),
                      IF IsFinite(raw) THEN raw ELSE Int2Q(0))).n

\* the setters applyPreset calls once `next` exists; updateState is last
ApplyPresetSetters(p, next) ==
  /\ guideXs' = (IF p.guidesX.isArray THEN p.guidesX.items ELSE <<>>)
  /\ guideYs' = (IF p.guidesY.isArray THEN p.guidesY.items ELSE <<>>)
  /\ keepAspect' = Truthy(p.bg.keepAspect)
  /\ activeBg' = (IF IsUndefined(p.bg.activeBg) THEN 0 ELSE p.bg.activeBg.n)
  /\ updateState(next, TRUE)
  /\ activeSeries' = 0
  /\ i2tSourceIndex' =
       (IF Len(next.series) > 0 /\ p.i2t.has /\ ~ThrowsAfterUpdate(p, next)
        THEN PresetSourceIndex(p, next) ELSE i2tSourceIndex)
  /\ toast' = (IF ThrowsAfterUpdate(p, next) THEN "Invalid preset" ELSE "Preset loaded")

applyPreset(p, cur, curDefined) ==
  IF ThrowsBuildingNext(p, curDefined)
  THEN /\ toast' = "Invalid preset"
       /\ UNCHANGED <<histVars, guideVars, keepAspect, activeBg, calls, idxVars>>
  ELSE ApplyPresetSetters(p, PresetNext(p, cur))

\* FileReader.onload of loadPresetFromFile: JSON.parse, then applyPreset
loadPresetFromFile(name) ==
  /\ UiShown
  /\ IF Payload(name).json = "syntax"
     THEN /\ toast' = "Cannot parse preset"
          /\ UNCHANGED <<histVars, guideVars, keepAspect, activeBg, calls, idxVars>>
     ELSE applyPreset(Payload(name), currentState, TRUE)
  /\ Event("preset", name)
  /\ UNCHANGED <<phase, rendered, bgEditMode>>
  /\ UNCHANGED <<bgVars, selectedPoint, pureVars>>

(***************************************************************************)
(* Guide inputs (Enter key or Add button) and Clear buttons.  n is the     *)
(* number the typed text parses to.                                        *)
(***************************************************************************)
InSeq(q, x) == \E i \in 1..Len(q) : q[i] = x

\* Array.from(new Set([...g, n]))
AddUnique(g, n) == IF InSeq(g, n) THEN g ELSE Append(g, n)

\* the numbers typed into the X guide input
GuideInputs == {0, 1, 2}

\* the numbers typed into the Y guide input
GuideYInputs == {0, 1}

\* a guide input that also commits a snapshot (not what the code does)
addGuideX_Commit(n) ==
  /\ UiShown
  /\ guideXs' = (IF n > 0 THEN AddUnique(guideXs, n) ELSE guideXs)
  /\ updateState(PrevOf(FALSE), FALSE)
  /\ Event("addGuideX", "")
  /\ UNCHANGED <<phase, guideYs, uiVars, toast>>
  /\ UNCHANGED <<bgVars, selVars, pureVars>>
  /\ Flush

addGuideX(n) ==
  /\ UiShown
  /\ guideXs' = (IF n > 0 THEN AddUnique(guideXs, n) ELSE guideXs)
  /\ Event("addGuideX", "")
  /\ UNCHANGED <<phase, histVars, guideYs, uiVars, toast, calls>>
  /\ UNCHANGED <<bgVars, selVars, pureVars>>
  /\ Flush

clearGuideX ==
  /\ UiShown
  /\ guideXs' = <<>>
  /\ Event("clearGuideX", "")
  /\ UNCHANGED <<phase, histVars, guideYs, uiVars, toast, calls>>
  /\ UNCHANGED <<bgVars, selVars, pureVars>>
  /\ Flush

addGuideY(n) ==
  /\ UiShown
  /\ guideYs' = (IF n > 0 THEN AddUnique(guideYs, n) ELSE guideYs)
  /\ Event("addGuideY", "")
  /\ UNCHANGED <<phase, histVars, guideXs, uiVars, toast, calls>>
  /\ UNCHANGED <<bgVars, selVars, pureVars>>
  /\ Flush

clearGuideY ==
  /\ UiShown
  /\ guideYs' = <<>>
  /\ Event("clearGuideY", "")
  /\ UNCHANGED <<phase, histVars, guideXs, uiVars, toast, calls>>
  /\ UNCHANGED <<bgVars, selVars, pureVars>>
  /\ Flush

(***************************************************************************)
(* Background panel controls.                                              *)
(***************************************************************************)
toggleBgEditMode ==
  /\ UiShown
  /\ bgEditMode' = ~bgEditMode
  /\ Event("toggleBgEdit", "")
  /\ UNCHANGED <<phase, histVars, guideVars, keepAspect, activeBg, toast, calls>>
  /\ UNCHANGED <<bgVars, selVars, pureVars>>
  /\ Flush

(***************************************************************************)
(* Mount: the initial-state effect, then the auto-load effect (share URL   *)
(* or localStorage), both with the closures of the first render.           *)
(***************************************************************************)
initEffect ==
  /\ phase = "start"
  /\ phase' = "effects"
  /\ history' = <<InitialAppState>>
  /\ historyIndex' = 0
  /\ born' = <<0>>
  /\ loadedAt' = 0
  /\ UNCHANGED <<rendered, guideVars, uiVars, toast, calls, ev, pre>>
  /\ UNCHANGED <<bgVars, selVars, pureVars>>

\* name = "none": no share URL and nothing stored
autoLoadEffect(name) ==
  /\ phase = "effects"
  /\ phase' = "mounted"
  /\ IF name = "none" \/ Payload(name).json = "syntax"
     THEN UNCHANGED <<histVars, guideVars, keepAspect, activeBg, calls, toast, idxVars>>
     ELSE applyPreset(Payload(name), UndefinedState, FALSE)
  /\ Event("mount", name)
  /\ UNCHANGED bgEditMode
  /\ UNCHANGED <<bgVars, selectedPoint, pureVars>>
  /\ Flush

(***************************************************************************)
(* Background image geometry.  Canvas coordinates are numbers; the images  *)
(* dropped on layers A and B have the natural sizes of ImageMeta.          *)
(***************************************************************************)
size == [w |-> Int2Q(960), h |-> Int2Q(560)]

pad == [left |-> Int2Q(60), right |-> Int2Q(20), top |-> Int2Q(30), bottom |-> Int2Q(46)]

innerRect ==
  [x |-> pad.left, y |-> pad.top,
   w |-> Sub(Sub(size.w, pad.left), pad.right),
   h |-> Sub(Sub(size.h, pad.top), pad.bottom)]

\* img.width, img.height of the image loaded into layer A and into layer B
ImageMeta == <<[w |-> Int2Q(880), h |-> Int2Q(484)], [w |-> Int2Q(440), h |-> Int2Q(484)]>>

baseRect(idx) ==
  LET r == innerRect
      meta == ImageMeta[idx + 1]
  IN  IF ~bgList[idx + 1] \/ ~keepAspect THEN r
      ELSE LET sc == MathMin(Div(r.w, meta.w), Div(r.h, meta.h))
               w == Mul(meta.w, sc)
               h == Mul(meta.h, sc)
           IN  [x |-> Add(r.x, Div(Sub(r.w, w), Int2Q(2))),
                y |-> Add(r.y, Div(Sub(r.h, h), Int2Q(2))),
                w |-> w, h |-> h]

\* a layout that adds the offset only to the default anchor
RectAndAnchor_Baked(base, xf, CA) ==
  LET dw == Mul(base.w, clampS(xf.sx))
      dh == Mul(base.h, clampS(xf.sy))
      ax == IF ~CA.isNull THEN CA.ax ELSE Add(base.x, xf.offX)
      ay == IF ~CA.isNull THEN CA.ay ELSE Add(Add(base.y, base.h), xf.offY)
      fx == IF ~CA.isNull THEN CA.fx ELSE Int2Q(0)
      fy == IF ~CA.isNull THEN CA.fy ELSE Int2Q(1)
  IN  [dx |-> Sub(ax, Mul(fx, dw)), dy |-> Sub(ay, Mul(fy, dh)),
       dw |-> dw, dh |-> dh, ax |-> ax, ay |-> ay, fx |-> fx, fy |-> fy,
       baseW |-> base.w, baseH |-> base.h]

\* the body of drawRectAndAnchor for base = baseRect(idx), xf =
\* bgXform[idx], CA = customAnchors[idx] (anchorMode is always "custom")
RectAndAnchor(base, xf, CA) ==
  LET dw == Mul(base.w, clampS(xf.sx))
      dh == Mul(base.h, clampS(xf.sy))
      dax == IF ~CA.isNull THEN CA.ax ELSE base.x
      day == IF ~CA.isNull THEN CA.ay ELSE Add(base.y, base.h)
      ax == Add(dax, xf.offX)
      ay == Add(day, xf.offY)
      fx == IF ~CA.isNull THEN CA.fx ELSE Int2Q(0)
      fy == IF ~CA.isNull THEN CA.fy ELSE Int2Q(1)
  IN  [dx |-> Sub(ax, Mul(fx, dw)), dy |-> Sub(ay, Mul(fy, dh)),
       dw |-> dw, dh |-> dh, ax |-> ax, ay |-> ay, fx |-> fx, fy |-> fy,
       baseW |-> base.w, baseH |-> base.h]

\* drawRectAndAnchor(idx) on the document st
drawRectAndAnchor(st, idx) ==
  RectAndAnchor(baseRect(idx), st.bgXform[idx + 1], st.customAnchors[idx + 1])

\* lastRectRef.current is not null: the draw effect has drawn the active layer
HasLastRect == UiShown /\ bgList[activeBg + 1]

\* { x: dx, y: dy, w: dw, h: dh }
RectOf(d) == [x |-> d.dx, y |-> d.dy, w |-> d.dw, h |-> d.dh]

\* lastRectRef.current, set by the draw effect of the last render
lastRect == RectOf(drawRectAndAnchor(currentState, activeBg))

\* the comparison of overImage on the rectangle lr, p = 14
InsideRect(lr, px, py, p) ==
  /\ Le(Sub(lr.x, p), px)
  /\ Le(px, Add(Add(lr.x, lr.w), p))
  /\ Le(Sub(lr.y, p), py)
  /\ Le(py, Add(Add(lr.y, lr.h), p))

overImage(px, py) == HasLastRect /\ InsideRect(lastRect, px, py, Int2Q(14))

\* hit(hx, hy) of pickHandle
HandleHit(px, py, hx, hy) ==
  /\ Le(MathAbs(Sub(px, hx)), Int2Q(12))
  /\ Le(MathAbs(Sub(py, hy)), Int2Q(12))

\* the handle of the rectangle lr under (px, py)
HandleAt(lr, px, py) ==
  IF HandleHit(px, py, Add(lr.x, lr.w), Add(lr.y, Div(lr.h, Int2Q(2)))) THEN "right"
  ELSE IF HandleHit(px, py, lr.x, Add(lr.y, Div(lr.h, Int2Q(2)))) THEN "left"
  ELSE IF HandleHit(px, py, Add(lr.x, Div(lr.w, Int2Q(2))), lr.y) THEN "top"
  ELSE IF HandleHit(px, py, Add(lr.x, Div(lr.w, Int2Q(2))), Add(lr.y, lr.h)) THEN "bottom"
  ELSE IF HandleHit(px, py, Add(lr.x, lr.w), Add(lr.y, lr.h)) THEN "uniform"
  ELSE "none"

pickHandle(px, py) == IF ~HasLastRect THEN "none" ELSE HandleAt(lastRect, px, py)

\* useRef({ active: false, startX: 0, startY: 0, baseX: 0, baseY: 0 })
NoDrag == [active |-> FALSE, startX |-> Int2Q(0), startY |-> Int2Q(0),
           baseX |-> Int2Q(0), baseY |-> Int2Q(0)]

\* useRef({ active: false, mode: "none", ax: 0, ay: 0, fx: 0.5, fy: 0.5, baseW: 1, baseH: 1 })
NoResize == [active |-> FALSE, mode |-> "none", ax |-> Int2Q(0), ay |-> Int2Q(0),
             fx |-> Q(1, 2), fy |-> Q(1, 2), baseW |-> Int2Q(1), baseH |-> Int2Q(1)]

(***************************************************************************)
(* Background panel controls shown only in background-edit mode, and the   *)
(* image loader.                                                           *)
(***************************************************************************)
setKeepAspect(checked) ==
  /\ UiShown
  /\ bgEditMode
  /\ keepAspect' = checked
  /\ UNCHANGED <<ev, pre>>
  /\ UNCHANGED <<phase, histVars, guideVars, bgEditMode, activeBg, toast, calls>>
  /\ UNCHANGED <<bgVars, selVars, pureVars>>
  /\ Flush

setActiveBg(idx) ==
  /\ UiShown
  /\ bgEditMode
  /\ activeBg' = idx
  /\ UNCHANGED <<ev, pre>>
  /\ UNCHANGED <<phase, histVars, guideVars, bgEditMode, keepAspect, toast, calls>>
  /\ UNCHANGED <<bgVars, selVars, pureVars>>
  /\ Flush

togglePickAnchor ==
  /\ UiShown
  /\ bgEditMode
  /\ pickAnchor' = ~pickAnchor
  /\ UNCHANGED <<ev, pre>>
  /\ UNCHANGED <<phase, histVars, guideVars, uiVars, toast, calls>>
  /\ UNCHANGED <<bgList, dragRef, resizeRef, selVars, pureVars>>
  /\ Flush

\* onFile(file, activeBg) up to img.onload (file input, paste or drop)
onFile ==
  /\ UiShown
  /\ ~bgList[activeBg + 1]
  /\ bgList' = [bgList EXCEPT ![activeBg + 1] = TRUE]
  /\ UNCHANGED <<ev, pre>>
  /\ UNCHANGED <<phase, histVars, rendered, guideVars, uiVars, toast, calls>>
  /\ UNCHANGED <<pickAnchor, dragRef, resizeRef, selVars, pureVars>>

(***************************************************************************)
(* Mouse on the canvas.  A pointer position is <<px, py>> in canvas        *)
(* coordinates.                                                            *)
(***************************************************************************)
\* pointer positions explored: the right, top and corner handles of the
\* untransformed rectangle, its centre, an inner point, and the default
\* anchor (the bottom-left corner)
RightHandle == <<940, 272>>

TopHandle == <<500, 30>>

CornerHandle == <<940, 514>>

Centre == <<500, 272>>

Inner == <<720, 393>>

BottomLeft == <<60, 514>>

clamp01(v) == MathMax(Int2Q(0), MathMin(Int2Q(1), v))

\* the custom anchor picked at (px, py) on the rectangle lr
PickedAnchor(px, py, lr) ==
  [isNull |-> FALSE, ax |-> px, ay |-> py,
   fx |-> clamp01(Div(Sub(px, lr.x), lr.w)),
   fy |-> clamp01(Div(Sub(py, lr.y), lr.h))]

PickUpdater(prev, px, py, lr) ==
  [prev EXCEPT !.customAnchors[activeBg + 1] = PickedAnchor(px, py, lr)]

\* resizeRef.current = { active: true, mode: h, ...d }
StartResize(h, d) ==
  [active |-> TRUE, mode |-> h, ax |-> d.ax, ay |-> d.ay, fx |-> d.fx, fy |-> d.fy,
   baseW |-> d.baseW, baseH |-> d.baseH]

\* dragRef.current = { active: true, startX: px, startY: py, baseX, baseY }
StartDrag(px, py, xf) ==
  [active |-> TRUE, startX |-> px, startY |-> py, baseX |-> xf.offX, baseY |-> xf.offY]

\* the first branch of onMouseDown is taken
PickBranch(px, py) == pickAnchor /\ overImage(px, py)

\* right button down
onMouseDownRight ==
  /\ UiShown
  /\ pickAnchor
  /\ pickAnchor' = FALSE
  /\ UNCHANGED <<ev, pre>>
  /\ UNCHANGED <<phase, histVars, guideVars, uiVars, toast, calls>>
  /\ UNCHANGED <<bgList, dragRef, resizeRef, selVars, pureVars>>
  /\ Flush

\* safe(v) of the resize branch: |v| < 1e-6 ? 1e-6 : v
safe(v) ==
  IF IsFinite(v) /\ Abs(v.n) <= (v.d - 1) \div 1000000 THEN Q(1, 1000000) ELSE v

\* `dw ? a : b`: undefined, 0 and NaN are falsy
Falsy(v) == IsUndefined(v) \/ IsNaN(v) \/ (IsFinite(v) /\ v.n = 0)

\* the width and height the pointer asks for; Undefined where the handle
\* does not set one
ResizeTarget(rr, px, py, keep) ==
  LET oneFx == safe(Sub(Int2Q(1), rr.fx))
      oneFy == safe(Sub(Int2Q(1), rr.fy))
      dwX == IF Le(rr.ax, px) THEN Div(Sub(px, rr.ax), oneFx)
             ELSE Div(Sub(rr.ax, px), safe(rr.fx))
      dhY == IF Le(rr.ay, py) THEN Div(Sub(py, rr.ay), oneFy)
             ELSE Div(Sub(rr.ay, py), safe(rr.fy))
      sc == MathMax(Div(dwX, rr.baseW), Div(dhY, rr.baseH))
  IN  IF rr.mode = "right" THEN [dw |-> Div(Sub(px, rr.ax), oneFx), dh |-> Undefined]
      ELSE IF rr.mode = "left" THEN [dw |-> Div(Sub(rr.ax, px), safe(rr.fx)), dh |-> Undefined]
      ELSE IF rr.mode = "bottom" THEN [dw |-> Undefined, dh |-> Div(Sub(py, rr.ay), oneFy)]
      ELSE IF rr.mode = "top" THEN [dw |-> Undefined, dh |-> Div(Sub(rr.ay, py), safe(rr.fy))]
      ELSE IF rr.mode = "uniform"
           THEN (IF keep THEN [dw |-> Mul(rr.baseW, sc), dh |-> Mul(rr.baseH, sc)]
                         ELSE [dw |-> dwX, dh |-> dhY])
      ELSE [dw |-> Undefined, dh |-> Undefined]

\* nsx and nsy; cur is currentState.bgXform[activeBg] of the closure
ResizeScales(rr, px, py, keep, cur) ==
  LET t == ResizeTarget(rr, px, py, keep)
  IN  [nsx |-> IF Falsy(t.dw) THEN cur.sx ELSE clampS(Div(t.dw, rr.baseW)),
       nsy |-> IF Falsy(t.dh) THEN cur.sy ELSE clampS(Div(t.dh, rr.baseH))]

\* a resize that keeps the left edge in place by moving the offset
ResizeXf_LeftEdge(xf, ns, keep) ==
  [xf EXCEPT !.sx = ns.nsx, !.sy = IF keep THEN ns.nsx ELSE ns.nsy,
             !.offX = Add(xf.offX, Mul(Sub(ns.nsx, xf.sx), Int2Q(440)))]

\* { ...xf, sx: keepAspect ? nsx : nsx, sy: keepAspect ? nsx : nsy }
ResizeXf(xf, ns, keep) ==
  [xf EXCEPT !.sx = ns.nsx, !.sy = IF keep THEN ns.nsx ELSE ns.nsy]

ResizeUpdater(prev, px, py) ==
  [prev EXCEPT !.bgXform[activeBg + 1] =
     ResizeXf(@, ResizeScales(resizeRef, px, py, keepAspect,
                              currentState.bgXform[activeBg + 1]), keepAspect)]

\* a drag that adds the pointer delta to the stored offset
DragXf_Accumulate(xf, dr, px, py) ==
  [xf EXCEPT !.offX = Add(xf.offX, Sub(px, dr.startX)),
             !.offY = Add(xf.offY, Sub(py, dr.startY))]

DragXf(xf, dr, px, py) ==
  [xf EXCEPT !.offX = Add(dr.baseX, Sub(px, dr.startX)),
             !.offY = Add(dr.baseY, Sub(py, dr.startY))]

DragUpdater(prev, px, py) ==
  [prev EXCEPT !.bgXform[activeBg + 1] = DragXf(@, dragRef, px, py)]

\* the resize branch of onMouseMove is taken
ResizeBranch == resizeRef.active /\ bgEditMode

\* the drag branch of onMouseMove is taken
DragBranch == ~ResizeBranch /\ dragRef.active /\ bgEditMode

\* pointer move during a session (continuous event)
onMouseMove(p) ==
  LET px == Int2Q(p[1])
      py == Int2Q(p[2])
  IN  /\ UiShown
      /\ ResizeBranch \/ DragBranch
      /\ calls < MaxBgCalls
      /\ IF ResizeBranch
         THEN /\ updateState(ResizeUpdater(PrevOf(FALSE), px, py), FALSE)
              /\ Event("commit", "resize")
         ELSE /\ updateState(DragUpdater(PrevOf(FALSE), px, py), FALSE)
              /\ Event("commit", "drag")
      /\ UNCHANGED <<phase, rendered, guideVars, uiVars, toast>>
      /\ UNCHANGED <<bgVars, selVars, pureVars>>

\* onMouseUp, and the session part of onMouseLeave
onMouseUp ==
  /\ UiShown
  /\ dragRef.active \/ resizeRef.active
  /\ dragRef' = [dragRef EXCEPT !.active = FALSE]
  /\ resizeRef' = [resizeRef EXCEPT !.active = FALSE]
  /\ UNCHANGED <<ev, pre>>
  /\ UNCHANGED <<phase, histVars, guideVars, uiVars, toast, calls>>
  /\ UNCHANGED <<bgList, pickAnchor, selVars, pureVars>>
  /\ Flush

InitApp ==
  /\ phase = "start"
  /\ history = <<>>
  /\ historyIndex = -1
  /\ rendered = [history |-> <<>>, historyIndex |-> -1]
  /\ guideXs = <<>>
  /\ guideYs = <<>>
  /\ bgEditMode = FALSE
  /\ keepAspect = FALSE
  /\ activeBg = 0
  /\ toast = ""
  /\ calls = 0
  /\ ev = [op |-> "none", arg |-> ""]
  /\ pre = [cur |-> UndefinedState, guideXs |-> <<>>, guideYs |-> <<>>]
  /\ born = <<>>
  /\ loadedAt = 0
  /\ bgList = <<FALSE, FALSE>>
  /\ pickAnchor = FALSE
  /\ dragRef = NoDrag
  /\ resizeRef = NoResize
  /\ selectedPoint = NoSelection
  /\ activeSeries = 0
  /\ i2tSourceIndex = 0

(***************************************************************************)
(* Transformed coordinates.  On a log axis a coordinate is log10 of the    *)
(* value; log10(2) + log10(5) = 1, so the logarithm of 2^i * 5^j is the    *)
(* exact form a + b * log10(5) with a = i and b = j - i.  A transformed    *)
(* value is kept as such a form [a, b] with rational a and b; on a linear  *)
(* axis b = 0.                                                             *)
(***************************************************************************)
Lin(a, b) == [a |-> a, b |-> b]

LinQ(q) == Lin(q, Int2Q(0))

LinZero == LinQ(Int2Q(0))

\* NaN and the infinities are kept as [a, 0] with a non-finite a
LinFinite(x) == IsFinite(x.a)

LinAdd(x, y) ==
  IF LinFinite(x) /\ LinFinite(y) THEN Lin(Add(x.a, y.a), Add(x.b, y.b))
  ELSE LinQ(Add(x.a, y.a))

LinNeg(x) == Lin(Neg(x.a), Neg(x.b))

LinSub(x, y) == LinAdd(x, LinNeg(y))

\* log10(5) lies strictly between these two
LOG5_LO == Q(69897, 100000)

LOG5_HI == Q(69898, 100000)

\* the sign of a + b * log10(5); 0 for NaN
LinSign(x) ==
  LET lo == Add(x.a, Mul(x.b, LOG5_LO))
      hi == Add(x.a, Mul(x.b, LOG5_HI))
  IN  CASE x.b.n = 0 -> Sign(x.a.n)
        [] x.b.n # 0 /\ lo.n > 0 /\ hi.n > 0 -> 1
        [] x.b.n # 0 /\ lo.n < 0 /\ hi.n < 0 -> -1

\* x * y, one of the factors being rational; Infinity * 0 is NaN
LinMul(x, y) ==
  IF ~(LinFinite(x) /\ LinFinite(y)) THEN LinQ([n |-> LinSign(x) * LinSign(y), d |-> 0])
  ELSE CASE y.b.n = 0 -> Lin(Mul(x.a, y.a), Mul(x.b, y.a))
         [] x.b.n = 0 -> Lin(Mul(x.a, y.a), Mul(x.a, y.b))

\* x / y for a rational y; x / 0 is an infinity of the sign of x, 0 / 0 is NaN
LinDiv(x, y) ==
  CASE y.b.n = 0 ->
    IF ~LinFinite(x) THEN LinQ(Div(x.a, y.a))
    ELSE IF y.a = Int2Q(0) THEN LinQ([n |-> LinSign(x), d |-> 0])
    ELSE Lin(Div(x.a, y.a), Div(x.b, y.a))

\* x <= y: false as soon as one side is NaN
LinLe(x, y) == x.a # NaN /\ y.a # NaN /\ (x = y \/ LinSign(LinSub(x, y)) < 0)

\* how many times p divides n (n > 0)
RECURSIVE Multiplicity(_, _)
Multiplicity(n, p) == IF n % p = 0 THEN 1 + Multiplicity(n \div p, p) ELSE 0

RECURSIVE IntPow(_, _)
IntPow(p, k) == IF k = 0 THEN 1 ELSE p * IntPow(p, k - 1)

\* Math.log10(v) for v = 2^i * 5^j > 0
Log10(v) ==
  LET i == Multiplicity(v.n, 2) - Multiplicity(v.d, 2)
      j == Multiplicity(v.n, 5) - Multiplicity(v.d, 5)
  IN  CASE v.n = IntPow(2, Multiplicity(v.n, 2)) * IntPow(5, Multiplicity(v.n, 5))
           /\ v.d = IntPow(2, Multiplicity(v.d, 2)) * IntPow(5, Multiplicity(v.d, 5))
             -> Lin(Int2Q(i), Int2Q(j - i))

\* Math.log10(EPS), EPS = 1e-12
LOG_EPS == LinQ(Int2Q(-12))

\* EPS < v for a finite v
AboveEPS(v) == v.n > (v.d \div 1000000) \div 1000000

\* a transform that ignores the axis mode
tVal_Linear(v, log) == LinQ(v)

\* tVal(v, log) = log ? Math.log10(Math.max(EPS, v)) : v
tVal(v, log) ==
  IF ~log THEN LinQ(v)
  ELSE IF v.d = 0 /\ v.n >= 0 THEN LinQ(v)
  ELSE IF AboveEPS(v) THEN Log10(v)
  ELSE LOG_EPS

\* a value that pixelToData returned: Num(exp, lin), 10^lin when exp
IsNum(v) == "lin" \in DOMAIN v

\* tVal of 10^lin on a log axis: Math.log10(Math.max(EPS, Math.pow(10, lin)));
\* of lin on any axis: tVal of the rational
tNum(v, log) ==
  IF ~v.exp THEN (CASE v.lin.b.n = 0 -> tVal(v.lin.a, log))
  ELSE CASE log ->
         IF IsNaN(v.lin.a) THEN LinQ(NaN)
         ELSE IF LinLe(LOG_EPS, v.lin) THEN v.lin
         ELSE LOG_EPS

\* tVal(v, log) for a stored coordinate: a number of a preset, or a value
\* that pixelToData returned
tValOf(v, log) == IF IsNum(v) THEN tNum(v, log) ELSE tVal(v, log)

(***************************************************************************)
(* yAtX: the guide-row interpolation.  A result is None or a number: the   *)
(* form lin itself, or 10^lin when the y axis is logarithmic (exp).        *)
(***************************************************************************)
None == [none |-> TRUE]

Num(exp, lin) == [none |-> FALSE, exp |-> exp, lin |-> lin]

\* (x1 <= xT && xT <= x2) || (x2 <= xT && xT <= x1)
Brackets(x1, xT, x2) ==
  \/ LinLe(x1, xT) /\ LinLe(xT, x2)
  \/ LinLe(x2, xT) /\ LinLe(xT, x1)

\* a search that answers the last bracketing segment instead of the first
RECURSIVE FirstBracket_Last(_, _, _, _)
FirstBracket_Last(pts, xT, xlog, from) ==
  IF from >= Len(pts) THEN 0
  ELSE IF FirstBracket_Last(pts, xT, xlog, from + 1) # 0
       THEN FirstBracket_Last(pts, xT, xlog, from + 1)
  ELSE IF Brackets(tVal(pts[from].x, xlog), xT, tVal(pts[from + 1].x, xlog)) THEN from
  ELSE 0

\* the first i (1-based) from `from` on whose segment brackets xT, 0 if none
RECURSIVE FirstBracket(_, _, _, _)
FirstBracket(pts, xT, xlog, from) ==
  IF from >= Len(pts) THEN 0
  ELSE IF Brackets(tVal(pts[from].x, xlog), xT, tVal(pts[from + 1].x, xlog)) THEN from
  ELSE FirstBracket(pts, xT, xlog, from + 1)

\* num / ((x2 - x1) || EPS); a zero-width segment brackets xT only when
\* xT = x1, so that only 0 / EPS = 0 arises there
SegmentT(num, width) ==
  IF width = LinZero THEN (CASE num = LinZero -> LinZero) ELSE LinDiv(num, width)

\* the body of the loop for the bracketing segment p1, p2
Interpolate(p1, p2, xT, xlog, ylog) ==
  LET x1 == tVal(p1.x, xlog)
      x2 == tVal(p2.x, xlog)
      t == SegmentT(LinSub(xT, x1), LinSub(x2, x1))
      yT == LinAdd(tVal(p1.y, ylog), LinMul(t, LinSub(tVal(p2.y, ylog), tVal(p1.y, ylog))))
  IN  Num(ylog, yT)

yAtX(seriesPts, xTarget, xlog, ylog) ==
  IF Len(seriesPts) < 2 THEN None
  ELSE LET xT == tVal(xTarget, xlog)
           i == FirstBracket(seriesPts, xT, xlog, 1)
       IN  IF i = 0 THEN None
           ELSE Interpolate(seriesPts[i], seriesPts[i + 1], xT, xlog, ylog)

\* xAtY is yAtX with the roles of x and y exchanged
SwapXY(seriesPts) ==
  [i \in 1..Len(seriesPts) |->
     [seriesPts[i] EXCEPT !.x = seriesPts[i].y, !.y = seriesPts[i].x]]

xAtY(seriesPts, yTarget, xlog, ylog) == yAtX(SwapXY(seriesPts), yTarget, ylog, xlog)

\* the points a series is drawn from
PointInputs ==
  {Pt(10, 10), Pt(1000, 1000), Pt(100, 0), Pt(0, 0), Pt(-5, -5), Pt(10, 1000)}

\* the guide values asked for
TargetInputs == {Int2Q(-1), Int2Q(5), Int2Q(10), Int2Q(50), Int2Q(100)}

\* the series of at most n points
RECURSIVE SeriesUpTo(_)
SeriesUpTo(n) ==
  IF n = 0 THEN {<<>>}
  ELSE SeriesUpTo(n - 1)
         \cup {Append(s, p) : s \in {q \in SeriesUpTo(n - 1) : Len(q) = n - 1}, p \in PointInputs}

(***************************************************************************)
(* dataToPixel and pixelToData.  An axis is [min, max, log]; a pixel       *)
(* coordinate is a transformed value, as it is linear in one.              *)
(***************************************************************************)
Axis(min, max, log) == [min |-> min, max |-> max, log |-> log]

\* mm.xmax - mm.xmin, resp. mm.ymax - mm.ymin
tWidth(c) == LinSub(tVal(c.max, c.log), tVal(c.min, c.log))

\* (tv - mm.min) / (mm.max - mm.min)
Fraction(v, c) == LinDiv(LinSub(tValOf(v, c.log), tVal(c.min, c.log)), tWidth(c))

\* a py that grows with y
YPixel_NoFlip(y, c) ==
  LinAdd(LinQ(innerRect.y), LinMul(Fraction(y, c), LinQ(innerRect.h)))

\* px: r.x + ((tx - mm.xmin) / (mm.xmax - mm.xmin)) * r.w
XPixel(x, c) ==
  LinAdd(LinQ(innerRect.x), LinMul(Fraction(x, c), LinQ(innerRect.w)))

\* py: r.y + r.h - ((ty - mm.ymin) / (mm.ymax - mm.ymin)) * r.h
YPixel(y, c) ==
  LinSub(LinQ(Add(innerRect.y, innerRect.h)), LinMul(Fraction(y, c), LinQ(innerRect.h)))

dataToPixel(x, y, cx, cy) == [px |-> XPixel(x, cx), py |-> YPixel(y, cy)]

\* inv(mm.xmin + ((px - r.x) / r.w) * (mm.xmax - mm.xmin), xLog)
XData(px, c) ==
  Num(c.log,
      LinAdd(tVal(c.min, c.log),
             LinMul(LinDiv(LinSub(px, LinQ(innerRect.x)), LinQ(innerRect.w)), tWidth(c))))

\* inv(mm.ymin + ((r.y + r.h - py) / r.h) * (mm.ymax - mm.ymin), yLog)
YData(py, c) ==
  Num(c.log,
      LinAdd(tVal(c.min, c.log),
             LinMul(LinDiv(LinSub(LinQ(Add(innerRect.y, innerRect.h)), py), LinQ(innerRect.h)),
                    tWidth(c))))

pixelToData(px, py, cx, cy) == [x |-> XData(px, cx), y |-> YData(py, cy)]

\* the test of drawGrid on one axis: a non-finite transformed bound, or
\* mm.max <= mm.min
InvalidAxis(c) ==
  \/ ~LinFinite(tVal(c.min, c.log))
  \/ ~LinFinite(tVal(c.max, c.log))
  \/ LinLe(tVal(c.max, c.log), tVal(c.min, c.log))

\* drawGrid prints "Invalid axis range" and returns
drawGrid(cx, cy) == InvalidAxis(cx) \/ InvalidAxis(cy)

\* the draw effect: drawGrid, then (showPoints) dataToPixel of every point
drawEffect(p, cx, cy) ==
  [placeholder |-> drawGrid(cx, cy), points |-> <<dataToPixel(p.x, p.y, cx, cy)>>]

\* the axis configurations tried
AxisInputs ==
  {Axis(Int2Q(0), Int2Q(100), FALSE), Axis(Int2Q(-50), Int2Q(50), FALSE),
   Axis(Int2Q(100), Int2Q(100), FALSE), Axis(Int2Q(100), Int2Q(0), FALSE),
   Axis(Int2Q(0), Infinity, FALSE),
   Axis(Int2Q(10), Int2Q(1000), TRUE), Axis(Int2Q(-5), Int2Q(100), TRUE),
   Axis(Int2Q(-5), Int2Q(0), TRUE), Axis(Int2Q(1000), Int2Q(10), TRUE)}

\* the coordinates tried
ValueInputs == {Int2Q(-1), Int2Q(5), Int2Q(20), Int2Q(50), Int2Q(100)}

NoPixel == [px |-> LinQ(NaN), py |-> LinQ(NaN)]

NoData == [x |-> None, y |-> None]

NotDrawn == [placeholder |-> FALSE, points |-> <<>>]

AxisIdle ==
  /\ axPc = "idle"
  /\ axX = Axis(Int2Q(0), Int2Q(1), FALSE)
  /\ axY = Axis(Int2Q(0), Int2Q(1), FALSE)
  /\ axV = [x |-> Int2Q(0), y |-> Int2Q(0)]
  /\ axPix = NoPixel
  /\ axBack = NoData
  /\ axDrawn = NotDrawn

(***************************************************************************)
(* lib/i2t.ts and lib/parse.ts.  A sample is [t, i].                       *)
(***************************************************************************)
Sample(t, i) == [t |-> t, i |-> i]

\* a rectangle of twice the height
Trapezoid_NoHalf(curr, next) ==
  Mul(Add(Mul(curr.i, curr.i), Mul(next.i, next.i)), Sub(next.t, curr.t))

\* (curr.i * curr.i + next.i * next.i) / 2 * dt
Trapezoid(curr, next) ==
  Mul(Div(Add(Mul(curr.i, curr.i), Mul(next.i, next.i)), Int2Q(2)), Sub(next.t, curr.t))


\* the loop of integrateI2t from index k (1-based) on
RECURSIVE SumFrom(_, _)
SumFrom(samples, k) ==
  IF k >= Len(samples) THEN Int2Q(0)
  ELSE Add(Trapezoid(samples[k], samples[k + 1]), SumFrom(samples, k + 1))

integrateI2t(samples) == IF Len(samples) < 2 THEN Int2Q(0) ELSE SumFrom(samples, 1)

\* an equivalent time that is answered for every target current
timeAtEqualI2t_NoGuard(tc, I) == Div(integrateI2t(tc), Mul(I, I))

\* null is kept as `undefined`
timeAtEqualI2t(tc, I) ==
  IF Le(I, Int2Q(0)) \/ Len(tc) = 0 THEN Undefined
  ELSE Div(integrateI2t(tc), Mul(I, I))

\* if (isNaN(t) || isNaN(i) || t < 0 || i < 0) continue
RowKept(r) == ~(IsNaN(r.t) \/ IsNaN(r.i) \/ Lt(r.t, Int2Q(0)) \/ Lt(r.i, Int2Q(0)))

\* r put into the sorted samples after every sample with t <= r.t
RECURSIVE InsertByT(_, _)
InsertByT(sorted, r) ==
  IF sorted = <<>> THEN <<r>>
  ELSE IF Lt(r.t, sorted[Len(sorted)].t)
       THEN Append(InsertByT(SubSeq(sorted, 1, Len(sorted) - 1), r), sorted[Len(sorted)])
  ELSE Append(sorted, r)

\* samples.sort((a, b) => a.t - b.t): a stable sort
RECURSIVE SortByT(_)
SortByT(samples) ==
  IF samples = <<>> THEN <<>>
  ELSE InsertByT(SortByT(SubSeq(samples, 1, Len(samples) - 1)), samples[Len(samples)])

parseCsvToSamples(rows) == SortByT(SelectSeq(rows, RowKept))

\* the rows tried
SampleInputs ==
  {Sample(Int2Q(t), Int2Q(i)) : t \in {0, 1, 3}, i \in {0, 2, 3}}

\* the target currents tried
CurrentInputs == {Int2Q(-1), Int2Q(0), Int2Q(2), Int2Q(3), NaN}

\* the sequences of at most n rows
RECURSIVE SamplesUpTo(_)
SamplesUpTo(n) ==
  IF n = 0 THEN {<<>>}
  ELSE SamplesUpTo(n - 1)
         \cup {Append(s, r) : s \in {q \in SamplesUpTo(n - 1) : Len(q) = n - 1}, r \in SampleInputs}

\* a function not yet called, and the value it answered
NotRun == [run |-> FALSE]

Ran(v) == [run |-> TRUE, v |-> v]

I2tIdle ==
  /\ i2Rows = <<>>
  /\ i2Parsed = NotRun
  /\ i2Target = Int2Q(0)
  /\ i2Total = NotRun
  /\ i2TEq = NotRun

(***************************************************************************)
(* interpolateLinear and buildI2TSeries.  A curve point is [x, y].         *)
(***************************************************************************)
XY(x, y) == [x |-> x, y |-> y]

\* p put into the sorted points after every point with x <= p.x
RECURSIVE InsertByX(_, _)
InsertByX(sorted, p) ==
  IF sorted = <<>> THEN <<p>>
  ELSE IF Lt(p.x, sorted[Len(sorted)].x)
       THEN Append(InsertByX(SubSeq(sorted, 1, Len(sorted) - 1), p), sorted[Len(sorted)])
  ELSE Append(sorted, p)

\* [...pts].sort((a, b) => a.x - b.x)
RECURSIVE SortByX(_)
SortByX(pts) ==
  IF pts = <<>> THEN <<>>
  ELSE InsertByX(SortByX(SubSeq(pts, 1, Len(pts) - 1)), pts[Len(pts)])

\* the loop of interpolateLinear from segment k (1-based) on
RECURSIVE InterpolateFrom(_, _, _)
InterpolateFrom(sorted, targetX, k) ==
  IF k >= Len(sorted) THEN Undefined
  ELSE IF Le(sorted[k].x, targetX) /\ Le(targetX, sorted[k + 1].x)
       THEN LET width == Sub(sorted[k + 1].x, sorted[k].x)
                num == Sub(targetX, sorted[k].x)
                \* (p2.x - p1.x) || EPS: with a zero width, targetX = p1.x
                t == IF Falsy(width) THEN (CASE num = Int2Q(0) -> Int2Q(0)) ELSE Div(num, width)
            IN  Add(sorted[k].y, Mul(t, Sub(sorted[k + 1].y, sorted[k].y)))
  ELSE InterpolateFrom(sorted, targetX, k + 1)

\* null is kept as `undefined`
interpolateLinear(pts, targetX) ==
  IF Len(pts) = 0 \/ ~IsFinite(targetX) THEN Undefined
  ELSE IF Le(targetX, SortByX(pts)[1].x) THEN SortByX(pts)[1].y
  ELSE IF Le(SortByX(pts)[Len(pts)].x, targetX) THEN SortByX(pts)[Len(pts)].y
  ELSE InterpolateFrom(SortByX(pts), targetX, 1)

\* filter(p => Number.isFinite(p.x) && Number.isFinite(p.y) && p.x > 0)
SourceKept(p) == IsFinite(p.x) /\ IsFinite(p.y) /\ Lt(Int2Q(0), p.x)

\* p => ({ x: p.x, y: p.y * p.y * p.x })
ToI2T(p) == XY(p.x, Mul(Mul(p.y, p.y), p.x))

\* filter(p => Number.isFinite(p.y) && p.y > 0)
ConvertedKept(p) == IsFinite(p.y) /\ Lt(Int2Q(0), p.y)

\* `converted`: the I2t curve of the source points
Converted(points) ==
  LET sorted == SortByX(SelectSeq(points, SourceKept))
  IN  SelectSeq([k \in 1..Len(sorted) |-> ToI2T(sorted[k])], ConvertedKept)

\* a test that asks the reference value to exceed 10
RefUsable_AboveTen(refVal) ==
  ~IsUndefined(refVal) /\ IsFinite(refVal) /\ Lt(Int2Q(10), refVal)

\* not (refVal == null || !Number.isFinite(refVal) || refVal <= 0)
RefUsable(refVal) ==
  ~IsUndefined(refVal) /\ IsFinite(refVal) /\ Lt(Int2Q(0), refVal)

\* 1 - drop / 100, a non-finite drop counting as 0
Factor(drop) ==
  Sub(Int2Q(1), Div(IF IsFinite(ToNumber(drop)) THEN drop ELSE Int2Q(0), Int2Q(100)))

\* factor.toFixed(6), as the number of millionths it prints
ToFixed6(factor) == (2 * 1000000 * factor.n + factor.d) \div (2 * factor.d)

\* converted.map(pt => ({ x: pt.x, y: pt.y * factor }))
Scaled(converted, factor) ==
  [k \in 1..Len(converted) |-> XY(converted[k].x, Mul(converted[k].y, factor))]

ComboKeys == <<"blue", "green", "red">>

\* combos.forEach from combo k on: `results` after the combos k..3, given
\* the keys seen so far
RECURSIVE CombosFrom(_, _, _, _)
CombosFrom(converted, drops, k, seen) ==
  IF k > 3 THEN <<>>
  ELSE IF ~Lt(Int2Q(0), Factor(drops[k])) \/ ToFixed6(Factor(drops[k])) \in seen
       THEN CombosFrom(converted, drops, k + 1, seen)
  ELSE <<[key |-> ComboKeys[k], points |-> Scaled(converted, Factor(drops[k]))]>>
         \o CombosFrom(converted, drops, k + 1, seen \cup {ToFixed6(Factor(drops[k]))})

buildI2TSeries(points, drops, refX) ==
  IF Len(SelectSeq(points, SourceKept)) = 0 \/ ~IsFinite(refX) THEN <<>>
  ELSE IF Len(Converted(points)) = 0 THEN <<>>
  ELSE IF ~RefUsable(interpolateLinear(Converted(points), refX)) THEN <<>>
  ELSE CombosFrom(Converted(points), drops, 1, {})

\* the source points tried
LtPointInputs == {Pt(1, 3), Pt(2, 1), Pt(4, 2), Pt(0, 5), Pt(2, 0), Pt(-1, 1)}

\* the source series of at most n points
RECURSIVE LtSeriesUpTo(_)
LtSeriesUpTo(n) ==
  IF n = 0 THEN {<<>>}
  ELSE LtSeriesUpTo(n - 1)
         \cup {Append(s, p) : s \in {q \in LtSeriesUpTo(n - 1) : Len(q) = n - 1}, p \in LtPointInputs}

\* the drop percentages tried: [blue, green, red]
DropInputs ==
  {<<Int2Q(0), Int2Q(10), Int2Q(20)>>, <<Int2Q(10), Int2Q(10), Int2Q(50)>>,
   <<Int2Q(0), Int2Q(100), Int2Q(150)>>, <<NaN, Int2Q(-20), Int2Q(0)>>}

\* the reference x values tried
RefInputs == {Int2Q(-1), Int2Q(1), Int2Q(3), Int2Q(5), Infinity}

LtIdle ==
  /\ ltSource = <<>>
  /\ ltDrops = <<Int2Q(0), Int2Q(0), Int2Q(0)>>
  /\ ltRefX = Int2Q(0)
  /\ ltRefVal = NotRun
  /\ ltResult = NotRun

ClampIdle ==
  /\ clampPc = "idle"
  /\ clampIn = NaN
  /\ clampOut = NaN
  /\ clampTwice = NaN

InterpIdle ==
  /\ ipPc = "idle"
  /\ ipPts = <<>>
  /\ ipXLog = FALSE
  /\ ipYLog = FALSE
  /\ ipTarget = Int2Q(0)
  /\ ipResult = None

InitInterp ==
  /\ InitApp
  /\ ClampIdle
  /\ AxisIdle
  /\ I2tIdle
  /\ LtIdle
  /\ ipPc = "idle"
  /\ ipPts \in SeriesUpTo(MaxPoints)
  /\ ipXLog \in BOOLEAN
  /\ ipYLog \in BOOLEAN
  /\ ipTarget \in TargetInputs
  /\ ipResult = None

\* the row of an X guide: yAtX(series.points, gx)
guideRowX ==
  /\ ipPc = "idle"
  /\ ipPc' = "yAtX"
  /\ ipResult' = yAtX(ipPts, ipTarget, ipXLog, ipYLog)
  /\ UNCHANGED <<ipPts, ipXLog, ipYLog, ipTarget>>
  /\ UNCHANGED <<appVars, clampVars, axisVars, i2tVars, ltVars>>

\* the row of a Y guide: xAtY(series.points, gy)
guideRowY ==
  /\ ipPc = "idle"
  /\ ipPc' = "xAtY"
  /\ ipResult' = xAtY(ipPts, ipTarget, ipXLog, ipYLog)
  /\ UNCHANGED <<ipPts, ipXLog, ipYLog, ipTarget>>
  /\ UNCHANGED <<appVars, clampVars, axisVars, i2tVars, ltVars>>

NextInterp ==
  \/ guideRowX
  \/ guideRowY

SpecInterp == InitInterp /\ [][NextInterp]_vars

(***************************************************************************)
(* The axis transform as a function of its inputs: the data point and the  *)
(* two axis configurations are drawn from AxisInputs and ValueInputs, then *)
(* dataToPixel and pixelToData are applied in turn, or the canvas is drawn.*)
(***************************************************************************)
InitAxis ==
  /\ InitApp
  /\ ClampIdle
  /\ InterpIdle
  /\ I2tIdle
  /\ LtIdle
  /\ axPc = "idle"
  /\ axX \in AxisInputs
  /\ axY \in AxisInputs
  /\ axV \in [x : ValueInputs, y : ValueInputs]
  /\ axPix = NoPixel
  /\ axBack = NoData
  /\ axDrawn = NotDrawn

\* const p = dataToPixel(s.x, s.y)
toPixel ==
  /\ axPc = "idle"
  /\ axPc' = "toPixel"
  /\ axPix' = dataToPixel(axV.x, axV.y, axX, axY)
  /\ UNCHANGED <<axX, axY, axV, axBack, axDrawn>>
  /\ UNCHANGED <<appVars, clampVars, interpVars, i2tVars, ltVars>>

\* const d = pixelToData(p.px, p.py)
toData ==
  /\ axPc = "toPixel"
  /\ axPc' = "toData"
  /\ axBack' = pixelToData(axPix.px, axPix.py, axX, axY)
  /\ UNCHANGED <<axX, axY, axV, axPix, axDrawn>>
  /\ UNCHANGED <<appVars, clampVars, interpVars, i2tVars, ltVars>>

\* the draw effect, with axV as the one point of the one series
draw ==
  /\ axPc = "idle"
  /\ axPc' = "drawn"
  /\ axDrawn' = drawEffect(axV, axX, axY)
  /\ UNCHANGED <<axX, axY, axV, axPix, axBack>>
  /\ UNCHANGED <<appVars, clampVars, interpVars, i2tVars, ltVars>>

NextAxis ==
  \/ toPixel
  \/ toData
  \/ draw

SpecAxis == InitAxis /\ [][NextAxis]_vars

(***************************************************************************)
(* The I2t library as functions of their inputs: rows and a target current *)
(* are drawn from the inputs; the rows are integrated as they are, or      *)
(* parsed first (filtered and sorted by t) as the I2t page does.           *)
(***************************************************************************)
InitI2t ==
  /\ InitApp
  /\ ClampIdle
  /\ InterpIdle
  /\ AxisIdle
  /\ LtIdle
  /\ i2Rows \in SamplesUpTo(MaxSamples)
  /\ i2Parsed = NotRun
  /\ i2Target \in CurrentInputs
  /\ i2Total = NotRun
  /\ i2TEq = NotRun

\* const samples = parseCsvToSamples(inputText)
parseRows ==
  /\ i2Parsed = NotRun
  /\ i2Total = NotRun
  /\ i2TEq = NotRun
  /\ i2Parsed' = Ran(parseCsvToSamples(i2Rows))
  /\ UNCHANGED <<i2Rows, i2Target, i2Total, i2TEq>>
  /\ UNCHANGED <<appVars, clampVars, interpVars, axisVars, ltVars>>

\* the samples a call is given: the parsed ones once the rows are parsed
SamplesPassed == IF i2Parsed = NotRun THEN i2Rows ELSE i2Parsed.v

\* total: integrateI2t(s.tc)
integrate ==
  /\ i2Total = NotRun
  /\ i2Total' = Ran(integrateI2t(SamplesPassed))
  /\ UNCHANGED <<i2Rows, i2Parsed, i2Target, i2TEq>>
  /\ UNCHANGED <<appVars, clampVars, interpVars, axisVars, ltVars>>

\* tEq: timeAtEqualI2t(tc, eqCurrent)
equivalentTime ==
  /\ i2TEq = NotRun
  /\ i2TEq' = Ran(timeAtEqualI2t(SamplesPassed, i2Target))
  /\ UNCHANGED <<i2Rows, i2Parsed, i2Target, i2Total>>
  /\ UNCHANGED <<appVars, clampVars, interpVars, axisVars, ltVars>>

NextI2t ==
  \/ parseRows
  \/ integrate
  \/ equivalentTime

SpecI2t == InitI2t /\ [][NextI2t]_vars

(***************************************************************************)
(* buildI2TSeries as a function of its inputs.                             *)
(***************************************************************************)
InitLt ==
  /\ InitApp
  /\ ClampIdle
  /\ InterpIdle
  /\ AxisIdle
  /\ I2tIdle
  /\ ltSource \in LtSeriesUpTo(MaxPoints)
  /\ ltDrops \in DropInputs
  /\ ltRefX \in RefInputs
  /\ ltRefVal = NotRun
  /\ ltResult = NotRun

\* const refVal = interpolateLinear(converted, refX)
interpolateRef ==
  /\ ltRefVal = NotRun
  /\ ltRefVal' = Ran(interpolateLinear(Converted(ltSource), ltRefX))
  /\ UNCHANGED <<ltSource, ltDrops, ltRefX, ltResult>>
  /\ UNCHANGED <<appVars, clampVars, interpVars, axisVars, i2tVars>>

\* const computed = buildI2TSeries(source, i2tConfig.drops, i2tConfig.refX)
buildCurves ==
  /\ ltResult = NotRun
  /\ ltResult' = Ran(buildI2TSeries(ltSource, ltDrops, ltRefX))
  /\ UNCHANGED <<ltSource, ltDrops, ltRefX, ltRefVal>>
  /\ UNCHANGED <<appVars, clampVars, interpVars, axisVars, i2tVars>>

NextLt ==
  \/ interpolateRef
  \/ buildCurves

SpecLt == InitLt /\ [][NextLt]_vars

(***************************************************************************)
(* Points on the canvas: selecting, adding and nudging a point, the series *)
(* list and the effect that clamps the series indices.  A clicked point is *)
(* stored as pixelToData returned it.                                      *)
(***************************************************************************)
XAxisOf(st) == Axis(st.xMin, st.xMax, st.xLog)

YAxisOf(st) == Axis(st.yMin, st.yMax, st.yLog)

\* px >= r.x - T && px <= r.x + r.w + T && py >= r.y - T && py <= r.y + r.h + T
inPlot(px, py) == InsideRect(innerRect, px, py, Int2Q(14))

\* ptRadius + 4, ptRadius being 5
HIT_RADIUS == Int2Q(9)

\* Math.hypot(px - ppx, py - ppy) < ptRadius + 4, compared by the squares
Near(px, py, P) ==
  LET dx == LinSub(LinQ(px), P.px)
      dy == LinSub(LinQ(py), P.py)
  IN  CASE dx.b.n = 0 /\ dy.b.n = 0 ->
             Lt(Add(Mul(dx.a, dx.a), Mul(dy.a, dy.a)), Mul(HIT_RADIUS, HIT_RADIUS))

\* the <<si, pi>> (1-based) of the points of st that the pointer hits
Hits(st, px, py) ==
  {h \in UNION {{<<si, pi>> : pi \in 1..Len(st.series[si].points)} :
                  si \in 1..Len(st.series)} :
     Near(px, py, dataToPixel(st.series[h[1]].points[h[2]].x,
                              st.series[h[1]].points[h[2]].y,
                              XAxisOf(st), YAxisOf(st)))}

\* the selection the two loops of onMouseDown end with: the first hit in
\* the order of the series and of their points
FirstHit(st, px, py) ==
  LET hs == Hits(st, px, py)
  IN  IF hs = {} THEN NoSelection
      ELSE LET h == CHOOSE f \in hs :
                      \A g \in hs : f[1] < g[1] \/ (f[1] = g[1] /\ f[2] <= g[2])
           IN  Selected(h[1] - 1, h[2] - 1)

\* a.x - b.x < 0 for two stored coordinates of the same kind
DataLt(a, b) ==
  CASE IsNum(a) /\ IsNum(b) /\ a.exp = b.exp ->
         a.lin # b.lin /\ LinLe(a.lin, b.lin)
    [] ~IsNum(a) /\ ~IsNum(b) -> Lt(a, b)

\* p put into the sorted points after every point with x <= p.x
RECURSIVE InsertPoint(_, _)
InsertPoint(sorted, p) ==
  IF sorted = <<>> THEN <<p>>
  ELSE IF DataLt(p.x, sorted[Len(sorted)].x)
       THEN Append(InsertPoint(SubSeq(sorted, 1, Len(sorted) - 1), p), sorted[Len(sorted)])
  ELSE Append(sorted, p)

\* pts.sort((a, b) => a.x - b.x): the sort is stable
RECURSIVE SortPoints(_)
SortPoints(pts) ==
  IF pts = <<>> THEN <<>>
  ELSE InsertPoint(SortPoints(SubSeq(pts, 1, Len(pts) - 1)), pts[Len(pts)])

\* prev.series.map((s, i) => i === activeSeries
\*   ? { ...s, points: [...s.points, d].sort((a, b) => a.x - b.x) } : s)
AddPointUpdater(prev, d) ==
  [prev EXCEPT !.series =
     [i \in 1..Len(prev.series) |->
        IF i - 1 = activeSeries
        THEN [prev.series[i] EXCEPT !.points = SortPoints(Append(@, d))]
        ELSE prev.series[i]]]

\* const d = pixelToData(px, py)
ClickedData(px, py, st) == pixelToData(LinQ(px), LinQ(py), XAxisOf(st), YAxisOf(st))

\* left button down: pick the anchor; in background-edit mode start a
\* resize or a drag session; else select the point under the pointer or
\* add a point to the active series
onMouseDown(p) ==
  LET px == Int2Q(p[1])
      py == Int2Q(p[2])
  IN  /\ UiShown
      /\ ~(~PickBranch(px, py) /\ ~bgEditMode /\ ~inPlot(px, py))
      /\ IF PickBranch(px, py)
         THEN /\ calls < MaxBgCalls
              /\ updateState(PickUpdater(PrevOf(FALSE), px, py, lastRect), FALSE)
              /\ pickAnchor' = FALSE
              /\ Event("commit", "pick")
              /\ UNCHANGED <<dragRef, resizeRef, selectedPoint>>
         ELSE IF bgEditMode
         THEN /\ LET h == pickHandle(px, py)
                 IN  IF h # "none"
                     THEN /\ resizeRef' = StartResize(h, drawRectAndAnchor(currentState, activeBg))
                          /\ dragRef' = dragRef
                     ELSE /\ dragRef' = StartDrag(px, py, currentState.bgXform[activeBg + 1])
                          /\ resizeRef' = resizeRef
              /\ selectedPoint' = NoSelection
              /\ UNCHANGED <<histVars, calls, pickAnchor, ev, pre>>
         ELSE IF ~FirstHit(currentState, px, py).isNull
         THEN /\ selectedPoint' = FirstHit(currentState, px, py)
              /\ Event("select", "")
              /\ UNCHANGED <<histVars, calls, pickAnchor, dragRef, resizeRef>>
         ELSE /\ updateState(AddPointUpdater(PrevOf(FALSE), ClickedData(px, py, currentState)), FALSE)
              /\ selectedPoint' = NoSelection
              /\ Event("commit", "point")
              /\ UNCHANGED <<pickAnchor, dragRef, resizeRef>>
      /\ UNCHANGED <<phase, guideVars, uiVars, toast, bgList, idxVars, pureVars>>
      /\ Flush

\* a mouse-down that picks the anchor or falls in background-edit mode
onMouseDownEdit(p) ==
  /\ ~(~PickBranch(Int2Q(p[1]), Int2Q(p[2])) /\ ~bgEditMode)
  /\ onMouseDown(p)

\* the radio button of a series row
setActiveSeries(idx) ==
  /\ UiShown
  /\ idx < Len(currentState.series)
  /\ activeSeries' = idx
  /\ selectedPoint' = NoSelection
  /\ Event("setActiveSeries", "")
  /\ UNCHANGED <<phase, histVars, guideVars, uiVars, toast, calls, i2tSourceIndex>>
  /\ UNCHANGED <<bgVars, pureVars>>
  /\ Flush

\* baseSeries[seriesIndex]?.points[pointIndex]
MissingPoint == [missing |-> TRUE]

PointOf(st, sel) ==
  IF /\ sel.seriesIndex < Len(st.series)
     /\ sel.pointIndex < Len(st.series[sel.seriesIndex + 1].points)
  THEN st.series[sel.seriesIndex + 1].points[sel.pointIndex + 1]
  ELSE MissingPoint

\* a test that lets every pt through
NoPoint_Never(pt) == FALSE

\* !pt
NoPoint(pt) == pt = MissingPoint

\* (nx, ny): the pixel P moved by one step in the direction of the key
MovedTo(P, key, step) ==
  [px |-> IF key = "ArrowLeft" THEN LinSub(P.px, step)
          ELSE IF key = "ArrowRight" THEN LinAdd(P.px, step) ELSE P.px,
   py |-> IF key = "ArrowUp" THEN LinSub(P.py, step)
          ELSE IF key = "ArrowDown" THEN LinAdd(P.py, step) ELSE P.py]

\* pixelToData(nx, ny), (nx, ny) being dataToPixel(pt.x, pt.y) moved by step
NudgedPoint(pt, key, shift, st) ==
  CHOOSE nd \in {pixelToData(N.px, N.py, XAxisOf(st), YAxisOf(st)) :
                   N \in {MovedTo(P, key, LinQ(Int2Q(IF shift THEN 10 ELSE 1))) :
                            P \in {dataToPixel(pt.x, pt.y, XAxisOf(st), YAxisOf(st))}}} : TRUE

\* prev.series.map((s, si) => si !== seriesIndex ? s
\*   : { ...s, points: s.points.map((p, pi) => (pi === pointIndex ? nd : p)) })
PointNudgeUpdater(prev, sel, nd) ==
  [prev EXCEPT !.series =
     [si \in 1..Len(prev.series) |->
        IF si - 1 # sel.seriesIndex THEN prev.series[si]
        ELSE [prev.series[si] EXCEPT !.points =
                [pi \in 1..Len(@) |-> IF pi - 1 = sel.pointIndex THEN nd ELSE @[pi]]]]]

\* an arrow key with a selection: `const { px, py } = dataToPixel(pt.x, pt.y)`
\* throws a TypeError when pt is undefined
onKeyPoint(key, shift) ==
  LET pt == PointOf(currentState, selectedPoint)
  IN  /\ UiShown
      /\ ~selectedPoint.isNull
      /\ IF NoPoint(pt)
         THEN /\ Event("key", key)
              /\ UNCHANGED <<histVars, calls>>
         ELSE IF pt = MissingPoint
         THEN /\ Event("TypeError", key)
              /\ UNCHANGED <<histVars, calls>>
         ELSE /\ updateState(PointNudgeUpdater(PrevOf(FALSE), selectedPoint,
                                               NudgedPoint(pt, key, shift, currentState)),
                             FALSE)
              /\ Event("commit", key)
      /\ UNCHANGED <<phase, guideVars, uiVars, toast>>
      /\ UNCHANGED <<bgVars, selVars, pureVars>>
      /\ Flush

\* the keydown listener on an arrow key
onKey(key, shift) ==
  IF ~selectedPoint.isNull THEN onKeyPoint(key, shift) ELSE onKeyBg(key, shift)

\* the keydown listener on Escape
onKeyEscape ==
  /\ Mounted
  /\ pickAnchor' = FALSE
  /\ selectedPoint' = NoSelection
  /\ Event("key", "Escape")
  /\ UNCHANGED <<phase, histVars, guideVars, uiVars, toast, calls>>
  /\ UNCHANGED <<bgList, dragRef, resizeRef, idxVars, pureVars>>
  /\ Flush

MAX_SERIES == 10

addSeries ==
  /\ UiShown
  /\ IF Len(currentState.series) >= MAX_SERIES
     THEN /\ toast' = "max series"
          /\ UNCHANGED <<histVars, calls, idxVars>>
     ELSE /\ updateState([PrevOf(FALSE) EXCEPT !.series = Append(@, EmptySeries)], FALSE)
          /\ activeSeries' = Len(currentState.series)
          /\ i2tSourceIndex' = Len(currentState.series)
          /\ UNCHANGED toast
  /\ Event("addSeries", "")
  /\ UNCHANGED <<phase, guideVars, uiVars, selectedPoint>>
  /\ UNCHANGED <<bgVars, pureVars>>
  /\ Flush

\* prev.series.filter((_, i) => i !== idx)
WithoutSeries(series, idx) ==
  [i \in 1..(Len(series) - (IF idx < Len(series) THEN 1 ELSE 0)) |->
     IF i - 1 < idx THEN series[i] ELSE series[i + 1]]

\* the updater of setActiveSeries and of setI2tSourceIndex in removeSeries
IndexAfterRemove(prev, idx) ==
  IF prev = idx THEN (IF prev - 1 > 0 THEN prev - 1 ELSE 0)
  ELSE IF prev > idx THEN prev - 1
  ELSE prev

\* i2tConfig is null as long as no I2T curve is generated
removeSeries(idx) ==
  /\ UiShown
  /\ idx < Len(currentState.series)
  /\ IF Len(currentState.series) <= 1
     THEN /\ toast' = "min series"
          /\ UNCHANGED <<histVars, calls, selVars>>
     ELSE /\ updateState([PrevOf(FALSE) EXCEPT !.series = WithoutSeries(@, idx)], FALSE)
          /\ selectedPoint' = NoSelection
          /\ activeSeries' = IndexAfterRemove(activeSeries, idx)
          /\ i2tSourceIndex' = IndexAfterRemove(i2tSourceIndex, idx)
          /\ UNCHANGED toast
  /\ Event("removeSeries", "")
  /\ UNCHANGED <<phase, guideVars, uiVars>>
  /\ UNCHANGED <<bgVars, pureVars>>
  /\ Flush

\* an effect that leaves the index as it is
ClampIndex_Keep(i, count) == i

\* if (i >= count) set(Math.max(0, count - 1))
ClampIndex(i, count) ==
  IF IndexBeyond(i, count) THEN (IF count - 1 > 0 THEN count - 1 ELSE 0) ELSE i

\* the effect on [currentState, activeSeries, i2tSourceIndex]
clampEffect ==
  /\ Mounted
  /\ ClampPending
  /\ activeSeries' = ClampIndex(activeSeries, Len(currentState.series))
  /\ i2tSourceIndex' = ClampIndex(i2tSourceIndex, Len(currentState.series))
  /\ Event("clampEffect", "")
  /\ UNCHANGED <<phase, histVars, rendered, guideVars, uiVars, toast, calls, selectedPoint>>
  /\ UNCHANGED <<bgVars, pureVars>>

Init ==
  /\ InitApp
  /\ ClampIdle
  /\ InterpIdle
  /\ AxisIdle
  /\ I2tIdle
  /\ LtIdle

AutoLoadNames == {"none", "full", "empty"}

Mount ==
  \/ initEffect
  \/ \E name \in AutoLoadNames : autoLoadEffect(name)

HistoryButtons ==
  \/ handleUndo
  \/ handleRedo

Next ==
  \/ Mount
  \/ Render
  \/ HistoryButtons
  \/ toggleBgEditMode
  \/ \E deltaNeg \in BOOLEAN : onWheel(deltaNeg)
  \/ \E k \in KeyInputs : onKeyBg(k[1], k[2])
  \/ \E name \in PayloadNames : loadPresetFromFile(name)

Spec == Init /\ [][Next]_vars

(***************************************************************************)
(* The guide panel with the history: guides, wheel commits, undo, redo.    *)
(***************************************************************************)
NextGuides ==
  \/ Mount
  \/ Render
  \/ HistoryButtons
  \/ toggleBgEditMode
  \/ \E deltaNeg \in BOOLEAN : onWheel(deltaNeg)
  \/ \E n \in GuideInputs : addGuideX(n)
  \/ clearGuideX
  \/ \E n \in GuideYInputs : addGuideY(n)
  \/ clearGuideY

SpecGuides == Init /\ [][NextGuides]_vars

(***************************************************************************)
(* Background editing on a fresh document: image load, panel controls,     *)
(* wheel, anchor pick, drag and resize sessions.                           *)
(***************************************************************************)
\* the wheel within the commits explored here
onWheelBg(deltaNeg) == calls < MaxBgCalls /\ onWheel(deltaNeg)

MountFresh ==
  \/ initEffect
  \/ autoLoadEffect("none")

\* drag sessions on either layer, no image loaded
NextDrag ==
  \/ MountFresh
  \/ Render
  \/ toggleBgEditMode
  \/ \E idx \in {0, 1} : setActiveBg(idx)
  \/ \E p \in {Centre, Inner} : onMouseDownEdit(p)
  \/ \E p \in {Inner, BottomLeft} : onMouseMove(p)
  \/ onMouseUp

SpecDrag == Init /\ [][NextDrag]_vars

\* anchor pick, drag, right-handle resize and wheel on layer A
NextAnchor ==
  \/ MountFresh
  \/ Render
  \/ toggleBgEditMode
  \/ onFile
  \/ togglePickAnchor
  \/ onMouseDownRight
  \/ \E deltaNeg \in BOOLEAN : onWheelBg(deltaNeg)
  \/ \E p \in {RightHandle, Centre} : onMouseDownEdit(p)
  \/ onMouseMove(Inner)
  \/ onMouseUp

SpecAnchor == Init /\ [][NextAnchor]_vars

\* edge-handle resize and wheel with the keep-aspect checkbox
NextScale ==
  \/ MountFresh
  \/ Render
  \/ toggleBgEditMode
  \/ onFile
  \/ \E checked \in BOOLEAN : setKeepAspect(checked)
  \/ \E deltaNeg \in BOOLEAN : onWheelBg(deltaNeg)
  \/ \E p \in {RightHandle, TopHandle} : onMouseDownEdit(p)
  \/ onMouseMove(Inner)
  \/ onMouseUp

SpecScale == Init /\ [][NextScale]_vars

\* corner-handle resize with the keep-aspect checkbox
NextUniform ==
  \/ MountFresh
  \/ Render
  \/ toggleBgEditMode
  \/ onFile
  \/ \E checked \in BOOLEAN : setKeepAspect(checked)
  \/ onMouseDownEdit(CornerHandle)
  \/ \E p \in {Inner, BottomLeft} : onMouseMove(p)
  \/ onMouseUp

SpecUniform == Init /\ [][NextUniform]_vars

(***************************************************************************)
(* Points: clicks on the plot, arrow keys and Escape, the series radio     *)
(* buttons, undo and redo, with the background panel at hand.              *)
(***************************************************************************)
\* the pixel of the data point (100, 10) on the default axes
PointA == <<236, 272>>

\* five pixels away from PointA
NearA == <<240, 275>>

\* the pixel of the data point (1000, 10)
PointB == <<412, 272>>

PointKeys == {<<"ArrowLeft", FALSE>>}

NextPoints ==
  \/ MountFresh
  \/ HistoryButtons
  \/ \E p \in {PointA, NearA} : onMouseDown(p)
  \/ \E idx \in {0, 1} : setActiveSeries(idx)
  \/ \E idx \in {1} : removeSeries(idx)
  \/ \E k \in PointKeys : onKey(k[1], k[2])
  \/ onKeyEscape

SpecPoints == Init /\ [][NextPoints]_vars

(***************************************************************************)
(* Clicks on the plot of either series, with the background panel at hand. *)
(***************************************************************************)
ClickInputs == {NearA, PointB}

NextPlot ==
  \/ MountFresh
  \/ toggleBgEditMode
  \/ onFile
  \/ togglePickAnchor
  \/ \E idx \in {1} : setActiveSeries(idx)
  \/ \E p \in ClickInputs : onMouseDown(p)

SpecPlot == Init /\ [][NextPlot]_vars

(***************************************************************************)
(* The series list: add and remove buttons, undo and redo, and the effect  *)
(* that clamps the indices, on a fresh document and on a stored session    *)
(* of nine series.                                                         *)
(***************************************************************************)
MountSeries ==
  \/ initEffect
  \/ \E name \in {"none", "nine"} : autoLoadEffect(name)

RemoveInputs == {0, 1, 9}

NextSeries ==
  \/ MountSeries
  \/ HistoryButtons
  \/ addSeries
  \/ \E idx \in RemoveInputs : removeSeries(idx)
  \/ clampEffect

SpecSeries == Init /\ [][NextSeries]_vars

(***************************************************************************)
(* clampS on its own: the input is drawn in the initial state, the first   *)
(* step stores clampS(input), the second stores clampS of that result.     *)
(***************************************************************************)
ClampInputs ==
  {Q(n, 100) : n \in (0 - MaxClampStep)..MaxClampStep}
    \cup {Q(5000 + n, 100) : n \in (0 - MaxClampStep)..MaxClampStep}
    \cup {NaN, Infinity, Neg(Infinity)}

InitClamp ==
  /\ InitApp
  /\ InterpIdle
  /\ AxisIdle
  /\ I2tIdle
  /\ LtIdle
  /\ clampPc = "idle"
  /\ clampIn \in ClampInputs
  /\ clampOut = NaN
  /\ clampTwice = NaN

clampOnce ==
  /\ clampPc = "idle"
  /\ clampPc' = "once"
  /\ clampOut' = clampS(clampIn)
  /\ UNCHANGED <<clampIn, clampTwice>>
  /\ UNCHANGED <<appVars, interpVars, axisVars, i2tVars, ltVars>>

clampAgain ==
  /\ clampPc = "once"
  /\ clampPc' = "twice"
  /\ clampTwice' = clampS(clampOut)
  /\ UNCHANGED <<clampIn, clampOut>>
  /\ UNCHANGED <<appVars, interpVars, axisVars, i2tVars, ltVars>>

NextClamp ==
  \/ clampOnce
  \/ clampAgain

SpecClamp == InitClamp /\ [][NextClamp]_vars

(***************************************************************************)
(* Properties of the history (specification Spec).                         *)
(***************************************************************************)
\* C1: once the history has been initialised, 0 <= historyIndex <
\* history.length holds after every sequence of commits, undos, redos and
\* overwrites, so history[historyIndex] is always defined.
C1_CursorInRange == (phase # "start") => Defined(history, historyIndex)

\* what C2 says a commit with updater result `made` does at cursor c
CommitAt(c, made) ==
  /\ history' = Append(SubSeq(history, 1, c + 1), made)
  /\ historyIndex' = Len(history') - 1

\* C2: a commit at cursor c replaces the history by the old snapshots 0..c
\* followed by exactly one new snapshot computed from snapshot c and moves
\* the cursor to the new last index; a redo right after a commit changes
\* nothing.
C2_CommitTruncatesAndAppends ==
  [][/\ Defined(history, historyIndex) =>
          /\ \A deltaNeg \in BOOLEAN :
                onWheel(deltaNeg) =>
                  CommitAt(historyIndex,
                           WheelUpdater(At(history, historyIndex),
                                        IF deltaNeg THEN ZOOM_IN ELSE ZOOM_OUT))
          /\ \A k \in KeyInputs :
                onKeyBg(k[1], k[2]) =>
                  CommitAt(historyIndex,
                           NudgeUpdater(At(history, historyIndex), k[1], k[2]))
     /\ (ev.op = "commit" /\ handleRedo) => UNCHANGED <<history, historyIndex>>
    ]_vars

\* C3: an undo immediately after a commit makes the current document equal
\* by value to the document that was current before that commit.
C3_UndoRestoresPreCommit ==
  [][(ev.op = "commit" /\ pre.cur # UndefinedState /\ handleUndo)
        => LiveCurrent' = pre.cur]_vars

\* the snapshots of history are exactly those made since the last overwrite
OnlyLoadedSnapshots ==
  /\ Len(born) = Len(history)
  /\ \A i \in 1..Len(born) : born[i] >= loadedAt

\* C4: an overwrite leaves exactly one snapshot, the loaded document, and
\* cursor 0, whatever the history and the cursor were; undo and redo never
\* change the snapshot sequence, so no snapshot made before the load can
\* become current again.
C4_OverwriteResets ==
  /\ [][/\ \A name \in PayloadNames :
              (loadPresetFromFile(name) /\ calls' # calls) =>
                 /\ history' = <<PresetNext(Payload(name), currentState)>>
                 /\ historyIndex' = 0
        /\ (loadedAt' # loadedAt) => (Len(history') = 1 /\ historyIndex' = 0)
        /\ HistoryButtons => history' = history
       ]_vars
  /\ []OnlyLoadedSnapshots

\* C4 witness: a preset was loaded over a history that held earlier
\* snapshots, and an undo was pressed afterwards
C4_Witness ==
  /\ ev.op = "undo"
  /\ loadedAt >= 2
  /\ loadedAt = calls
  /\ history = <<PresetNext(Payload("full"), pre.cur)>>
  /\ historyIndex = 0

\* C5: undo at cursor 0 and redo at the last index change nothing;
\* otherwise undo decrements and redo increments the cursor by exactly
\* one; both leave the snapshot sequence unchanged.
C5_UndoRedoMoveByOne ==
  [][Defined(history, historyIndex) =>
       /\ handleUndo =>
            /\ history' = history
            /\ historyIndex' = (IF historyIndex = 0 THEN 0 ELSE historyIndex - 1)
       /\ handleRedo =>
            /\ history' = history
            /\ historyIndex' = (IF historyIndex = Len(history) - 1
                                THEN historyIndex ELSE historyIndex + 1)
    ]_vars

(***************************************************************************)
(* Properties of preset loading (specification Spec).                      *)
(***************************************************************************)
\* the load was reported as a failure
Rejected == toast' \in {"Invalid preset", "Cannot parse preset"}

\* C6: a preset that is rejected (unparsable or structurally invalid) is
\* rejected as a whole: history, cursor, current document and guides are
\* as before, no part of the payload is applied.
C6_RejectedPresetAppliesNothing ==
  [][\A name \in PayloadNames :
        (loadPresetFromFile(name) /\ Rejected)
           => UNCHANGED <<history, historyIndex, guideXs, guideYs>>]_vars

MissingOrNonFinite(v) == IsUndefined(v) \/ ~IsFinite(v)

\* C7: when a preset is applied, every axis field that is missing or
\* non-finite in the payload takes the default (xMin=10, xMax=1e6,
\* yMin=1e-4, yMax=1e6, xLog=true, yLog=true) in the resulting document.
C7_PresetAxisDefaults ==
  [][\A name \in PayloadNames :
        (loadPresetFromFile(name) /\ calls' # calls) =>
           LET p == Payload(name)
               doc == history'[1]
           IN  /\ MissingOrNonFinite(p.axes.xMin) => doc.xMin = DEFAULT_X_MIN
               /\ MissingOrNonFinite(p.axes.xMax) => doc.xMax = DEFAULT_X_MAX
               /\ MissingOrNonFinite(p.axes.yMin) => doc.yMin = DEFAULT_Y_MIN
               /\ MissingOrNonFinite(p.axes.yMax) => doc.yMax = DEFAULT_Y_MAX
               /\ (p.axes.xLog = "undefined") => doc.xLog = TRUE
               /\ (p.axes.yLog = "undefined") => doc.yLog = TRUE
    ]_vars

(***************************************************************************)
(* Properties of the background scale (specifications Spec and SpecClamp). *)
(***************************************************************************)
\* C9: in every document of the history, the stored sx and sy of both
\* background layers lie in [0.05, 50].
C9_StoredScaleInRange ==
  \A i \in 1..Len(history) :
     \A b \in 1..2 :
        /\ InScaleRange(history[i].bgXform[b].sx)
        /\ InScaleRange(history[i].bgXform[b].sy)

\* C10: clampS is idempotent and its result always lies in [0.05, 50]:
\* an input below 0.05 gives 0.05, an input above 50 gives 50, an input in
\* between is returned unchanged.
C10_ClampContract ==
  /\ (clampPc # "idle") =>
        /\ InScaleRange(clampOut)
        /\ Lt(clampIn, SCALE_MIN) => clampOut = SCALE_MIN
        /\ Lt(SCALE_MAX, clampIn) => clampOut = SCALE_MAX
        /\ InScaleRange(clampIn) => clampOut = clampIn
  /\ (clampPc = "twice") => StrictEq(clampTwice, clampOut)

(***************************************************************************)
(* Properties of the guides (specification SpecGuides).                    *)
(***************************************************************************)
GuideStep ==
  \/ \E n \in GuideInputs : addGuideX(n)
  \/ clearGuideX
  \/ \E n \in GuideYInputs : addGuideY(n)
  \/ clearGuideY

GuideOps == {"addGuideX", "clearGuideX", "addGuideY", "clearGuideY"}

\* C8: guides are kept outside the undoable document: adding or clearing
\* an X or Y guide changes only the guide lists, appends no snapshot and
\* leaves the cursor alone; undo and redo leave the guide lists unchanged.
C8_GuidesOutsideHistory ==
  [][/\ GuideStep => UNCHANGED <<history, historyIndex>>
     /\ HistoryButtons => UNCHANGED <<guideXs, guideYs>>
    ]_vars

\* C8 witness: a guide was added after a commit and the undo that followed
\* moved the cursor back while the guide stayed
C8_Witness ==
  /\ ev.op = "undo"
  /\ guideXs # <<>>
  /\ guideXs = pre.guideXs
  /\ LiveCurrent # pre.cur
  /\ historyIndex < Len(history) - 1

\* C8 as stated: a guide step appends one snapshot, and an undo right after
\* it restores the previous guide lists
C8_GuidesUndoable ==
  [][/\ GuideStep => Len(history') = Len(history) + 1
     /\ (ev.op \in GuideOps /\ handleUndo) =>
           (guideXs' = pre.guideXs /\ guideYs' = pre.guideYs)
    ]_vars

(***************************************************************************)
(* Properties of background editing.  A step is compared with the          *)
(* document its updater received (PrevOf) and the snapshot it appended.    *)
(***************************************************************************)
\* the snapshot a commit appends
Appended == history'[Len(history')]

\* the layer that is not active
OtherBg == 1 - activeBg

\* the step changed nothing of the document outside bgXform[activeBg]
OnlyActiveXf(prev, next) ==
  next = [prev EXCEPT !.bgXform[activeBg + 1] = next.bgXform[activeBg + 1]]

\* C11: a wheel step in background-edit mode multiplies scaleX and scaleY
\* of the active layer by 1.05 or 0.95 and clamps each to [0.05, 50],
\* whatever keep-aspect is and also when the two scales differ; offsets and
\* the other layer are unchanged; the wheel acts only in background-edit
\* mode.
C11_WheelScalesBoth ==
  [][\A deltaNeg \in BOOLEAN :
       onWheelBg(deltaNeg) =>
         LET k == IF deltaNeg THEN ZOOM_IN ELSE ZOOM_OUT
             prev == PrevOf(FALSE)
             xf == prev.bgXform[activeBg + 1]
             nxf == Appended.bgXform[activeBg + 1]
         IN  /\ bgEditMode
             /\ nxf.sx = clampS(Mul(xf.sx, k))
             /\ nxf.sy = clampS(Mul(xf.sy, k))
             /\ nxf.offX = xf.offX
             /\ nxf.offY = xf.offY
             /\ OnlyActiveXf(prev, Appended)
    ]_vars

\* C12: in a drag session every pointer move stores, for the active layer,
\* the offset recorded at mouse-down plus (pointer - mouse-down position),
\* whatever the moves before it were; the layer's scale and the other
\* layer are unchanged.
C12_DragOffsetFromStart ==
  [][\A p \in {Inner, BottomLeft} :
       (onMouseMove(p) /\ DragBranch) =>
         LET prev == PrevOf(FALSE)
             xf == prev.bgXform[activeBg + 1]
             nxf == Appended.bgXform[activeBg + 1]
         IN  /\ nxf.offX = Add(dragRef.baseX, Sub(Int2Q(p[1]), dragRef.startX))
             /\ nxf.offY = Add(dragRef.baseY, Sub(Int2Q(p[2]), dragRef.startY))
             /\ nxf.sx = xf.sx
             /\ nxf.sy = xf.sy
             /\ Appended.bgXform[OtherBg + 1] = prev.bgXform[OtherBg + 1]
             /\ OnlyActiveXf(prev, Appended)
    ]_vars

\* C12 witness: the second move of one drag session, rendered in between,
\* which started at the centre with offset 0 and now rests on the
\* bottom-left corner after passing through the inner point
C12_Witness ==
  /\ ev = [op |-> "commit", arg |-> "drag"]
  /\ dragRef = StartDrag(Int2Q(500), Int2Q(272), IdentityXf)
  /\ Len(history) = 3
  /\ historyIndex = 2
  /\ history[2].bgXform[activeBg + 1].offX = Int2Q(220)
  /\ history[3].bgXform[activeBg + 1].offX = Int2Q(-440)
  /\ history[3].bgXform[activeBg + 1].offY = Int2Q(242)
  /\ pre.cur = history[2]

\* a resize step of the session started on handle mode
ResizeStep(mode) ==
  /\ onMouseMove(Inner)
  /\ ResizeBranch
  /\ resizeRef.mode = mode

\* the left edge of the active layer's draw rectangle
LeftEdge(st) == drawRectAndAnchor(st, activeBg).dx

\* the pixel of the draw rectangle that lies at the anchor's fractions
AnchorPixel(st) ==
  LET d == drawRectAndAnchor(st, activeBg)
  IN  <<Add(d.dx, Mul(d.fx, d.dw)), Add(d.dy, Mul(d.fy, d.dh))>>

\* C13 as stated: a right-handle resize leaves the left edge of the draw
\* rectangle where it was, for every pointer position and every anchor.
C13_LeftEdgeFixed ==
  [][ResizeStep("right") => LeftEdge(Appended) = LeftEdge(PrevOf(FALSE))]_vars

\* C13 amended: a right-handle resize leaves the anchor point of the draw
\* rectangle where it was; the left edge stays only when the anchor lies
\* on it (fx = 0: the default anchor).
C13_AnchorFixed ==
  [][ResizeStep("right") =>
       LET prev == PrevOf(FALSE)
       IN  /\ AnchorPixel(Appended) = AnchorPixel(prev)
           /\ drawRectAndAnchor(prev, activeBg).fx = Int2Q(0)
                => LeftEdge(Appended) = LeftEdge(prev)
    ]_vars

\* C13 witness: with the anchor picked at the centre, the right handle was
\* pulled to the inner point and the layer is now half as wide
C13_Witness ==
  /\ ev = [op |-> "commit", arg |-> "resize"]
  /\ resizeRef.active
  /\ resizeRef.mode = "right"
  /\ resizeRef.fx = Q(1, 2)
  /\ Defined(history, historyIndex)
  /\ LiveCurrent.customAnchors[activeBg + 1] = PickedAnchor(Int2Q(500), Int2Q(272), innerRect)
  /\ LiveCurrent.bgXform[activeBg + 1].sx = Q(1, 2)
  /\ pre.cur.bgXform[activeBg + 1].sx = Int2Q(1)
  /\ LeftEdge(LiveCurrent) = Int2Q(280)
  /\ LeftEdge(pre.cur) = Int2Q(60)

\* C14: a resize with an edge handle changes only the corresponding
\* scale: left and right only scaleX, top and bottom only scaleY; the
\* other scale and both offsets keep their values, keep-aspect on or off.
C14_EdgeHandleOneScale ==
  [][\A mode \in {"left", "right", "top", "bottom"} :
       ResizeStep(mode) =>
         LET prev == PrevOf(FALSE)
             xf == prev.bgXform[activeBg + 1]
             nxf == Appended.bgXform[activeBg + 1]
         IN  /\ mode \in {"left", "right"} => nxf.sy = xf.sy
             /\ mode \in {"top", "bottom"} => nxf.sx = xf.sx
             /\ nxf.offX = xf.offX
             /\ nxf.offY = xf.offY
             /\ OnlyActiveXf(prev, Appended)
    ]_vars

\* the ratio a pointer coordinate v asks for on one axis: its distance to
\* the anchor a, over the share of the base length b on that side
AxisRatio(v, a, f, b) ==
  IF Le(a, v) THEN Div(Div(Sub(v, a), safe(Sub(Int2Q(1), f))), b)
  ELSE Div(Div(Sub(a, v), safe(f)), b)

\* C15: with keep-aspect on, a resize with the corner handle sets
\* scaleX = scaleY = clamp(max(ratioX, ratioY)), the two ratios being
\* computed independently from the pointer's x and y distance to the
\* anchor.
C15_UniformUsesLargerRatio ==
  [][\A p \in {Inner, BottomLeft} :
       (onMouseMove(p) /\ ResizeBranch /\ resizeRef.mode = "uniform" /\ keepAspect) =>
         LET rr == resizeRef
             ratioX == AxisRatio(Int2Q(p[1]), rr.ax, rr.fx, rr.baseW)
             ratioY == AxisRatio(Int2Q(p[2]), rr.ay, rr.fy, rr.baseH)
             nxf == Appended.bgXform[activeBg + 1]
         IN  /\ nxf.sx = clampS(MathMax(ratioX, ratioY))
             /\ nxf.sy = nxf.sx
    ]_vars

\* the active layer of st has a custom anchor
HasCustomAnchor(st) == ~st.customAnchors[activeBg + 1].isNull

\* C16: with a custom anchor picked, the anchor point used for drawing is
\* the picked point plus the current offset; a drag translates the draw
\* rectangle by exactly the pointer's displacement without changing its
\* size; drag, resize and wheel steps leave the stored anchors
\* (ax, ay, fx, fy) as they were.
C16_OffsetAdditiveToAnchor ==
  [][
      /\ (onMouseMove(Inner) \/ \E deltaNeg \in BOOLEAN : onWheelBg(deltaNeg)) =>
          LET prev == PrevOf(FALSE)
              ca == Appended.customAnchors[activeBg + 1]
              nxf == Appended.bgXform[activeBg + 1]
              d == drawRectAndAnchor(Appended, activeBg)
          IN  /\ Appended.customAnchors = prev.customAnchors
              /\ HasCustomAnchor(Appended) =>
                   /\ d.ax = Add(ca.ax, nxf.offX)
                   /\ d.ay = Add(ca.ay, nxf.offY)
      /\ (onMouseMove(Inner) /\ DragBranch /\ HasCustomAnchor(PrevOf(FALSE))) =>
          LET prev == PrevOf(FALSE)
              xf == prev.bgXform[activeBg + 1]
              d == drawRectAndAnchor(prev, activeBg)
              nd == drawRectAndAnchor(Appended, activeBg)
              movedX == Sub(Add(dragRef.baseX, Sub(Int2Q(Inner[1]), dragRef.startX)), xf.offX)
              movedY == Sub(Add(dragRef.baseY, Sub(Int2Q(Inner[2]), dragRef.startY)), xf.offY)
          IN  /\ nd.dx = Add(d.dx, movedX)
              /\ nd.dy = Add(d.dy, movedY)
              /\ nd.dw = d.dw
              /\ nd.dh = d.dh
    ]_vars

\* C16 witness: the anchor was picked at the centre and the layer then
\* dragged from the centre to the inner point: the rectangle has moved by
\* (220, 121) and the stored anchor is the picked one
C16_Witness ==
  /\ ev = [op |-> "commit", arg |-> "drag"]
  /\ dragRef = StartDrag(Int2Q(500), Int2Q(272), IdentityXf)
  /\ Defined(history, historyIndex)
  /\ LiveCurrent.customAnchors[activeBg + 1] = PickedAnchor(Int2Q(500), Int2Q(272), innerRect)
  /\ pre.cur.customAnchors = LiveCurrent.customAnchors
  /\ LiveCurrent.bgXform[activeBg + 1] =
       [IdentityXf EXCEPT !.offX = Int2Q(220), !.offY = Int2Q(121)]
  /\ bgList[activeBg + 1]
  /\ drawRectAndAnchor(LiveCurrent, activeBg).dx = Int2Q(280)
  /\ drawRectAndAnchor(LiveCurrent, activeBg).dy = Int2Q(151)
  /\ drawRectAndAnchor(LiveCurrent, activeBg).ax = Int2Q(720)

(***************************************************************************)
(* Claims about the guide-row interpolation.                               *)
(***************************************************************************)
\* v lies between a and b, whichever of the two is the larger
Within(a, v, b) ==
  \/ LinLe(a, v) /\ LinLe(v, b)
  \/ LinLe(b, v) /\ LinLe(v, a)

\* the number a result stands for is <= the coordinate y, resp. >= y;
\* 10^lin is positive, so that it exceeds every y <= 0
ValLe(res, y) ==
  IF res.exp THEN y.n > 0 /\ LinLe(res.lin, Log10(y)) ELSE LinLe(res.lin, LinQ(y))

ValGe(res, y) ==
  IF res.exp THEN y.n <= 0 \/ LinLe(Log10(y), res.lin) ELSE LinLe(LinQ(y), res.lin)

ValueBetween(y1, res, y2) ==
  \/ ValGe(res, y1) /\ ValLe(res, y2)
  \/ ValGe(res, y2) /\ ValLe(res, y1)

\* segment i of pts holds v in its range of (untransformed) x
InRawRange(pts, i, v) == Within(LinQ(pts[i].x), LinQ(v), LinQ(pts[i + 1].x))

\* segment i of pts holds v in its range of transformed x
InTRange(pts, i, v, xlog) ==
  Within(tVal(pts[i].x, xlog), tVal(v, xlog), tVal(pts[i + 1].x, xlog))

\* the no-extrapolation property of one lookup, on the coordinates as stored
NoExtrapolationRaw(pts, target, res) ==
  /\ Len(pts) < 2 => res = None
  /\ (\A i \in 1..(Len(pts) - 1) : ~InRawRange(pts, i, target)) => res = None
  /\ res # None =>
       \E i \in 1..(Len(pts) - 1) :
         /\ InRawRange(pts, i, target)
         /\ \A j \in 1..(i - 1) : ~InRawRange(pts, j, target)
         /\ ValueBetween(pts[i].y, res, pts[i + 1].y)

\* the same property on the transformed coordinates
NoExtrapolationT(pts, target, xlog, ylog, res) ==
  /\ Len(pts) < 2 => res = None
  /\ (\A i \in 1..(Len(pts) - 1) : ~InTRange(pts, i, target, xlog)) => res = None
  /\ res # None =>
       \E i \in 1..(Len(pts) - 1) :
         /\ InTRange(pts, i, target, xlog)
         /\ \A j \in 1..(i - 1) : ~InTRange(pts, j, target, xlog)
         /\ res.exp = ylog
         /\ Within(tVal(pts[i].y, ylog), res.lin, tVal(pts[i + 1].y, ylog))

\* C17 (as stated): yAtX returns None for a series of fewer than 2 points
\* and for a target x outside the x-range of every pair of consecutive
\* points; every other result lies between the y values of the two
\* endpoints of the first segment, in storage order, whose x-range holds
\* the target.
C17_NoExtrapolation ==
  ipPc = "yAtX" => NoExtrapolationRaw(ipPts, ipTarget, ipResult)

\* C17 (amended): the same in transformed coordinates, where on a log axis
\* every coordinate and target <= 1e-12 counts as 1e-12: None for fewer
\* than 2 points and for a transformed target outside every segment's
\* transformed x-range; every other result has its transformed value
\* between the transformed y values of the endpoints of the first
\* bracketing segment.  xAtY has the same property with x and y exchanged.
C17_NoExtrapolationTransformed ==
  /\ ipPc = "yAtX" => NoExtrapolationT(ipPts, ipTarget, ipXLog, ipYLog, ipResult)
  /\ ipPc = "xAtY" => NoExtrapolationT(SwapXY(ipPts), ipTarget, ipYLog, ipXLog, ipResult)

\* C17 witness: on a log x axis the target -1 is looked up in a series
\* that starts at x = 0; both count as 1e-12 and the lookup answers
C17_Witness ==
  /\ ipPc = "yAtX"
  /\ ipXLog
  /\ ipTarget = Int2Q(-1)
  /\ Len(ipPts) >= 2
  /\ ipPts[1].x = Int2Q(0)
  /\ ipResult # None

\* the number a result stands for is v
ResultIs(res, v) ==
  /\ res # None
  /\ IF res.exp THEN AboveEPS(v) /\ res.lin = Log10(v) ELSE res.lin = LinQ(v)

\* segment i of pts joins two points of the line y = x
OnIdentityLine(pts, i) ==
  /\ pts[i].x = pts[i].y
  /\ pts[i + 1].x = pts[i + 1].y

\* v lies strictly between the x values of segment i
StrictlyInside(pts, i, v) ==
  \/ Lt(pts[i].x, v) /\ Lt(v, pts[i + 1].x)
  \/ Lt(pts[i + 1].x, v) /\ Lt(v, pts[i].x)

\* i is the first segment of pts, in storage order, that brackets v
FirstBracketing(pts, i, v, xlog) ==
  /\ InTRange(pts, i, v, xlog)
  /\ \A j \in 1..(i - 1) : ~InTRange(pts, j, v, xlog)

\* the worked example: [(10,10),(1000,1000)] on log-log axes
ExampleOfSpec(target) ==
  /\ ipPc = "yAtX"
  /\ ipXLog /\ ipYLog
  /\ ipPts = <<Pt(10, 10), Pt(1000, 1000)>>
  /\ ipTarget = Int2Q(target)

\* C18 (as stated): on log-log axes the series [(10,10),(1000,1000)] gives
\* valueAtX(100) = 100 and valueAtX(5) = None, and whenever the first
\* bracketing segment lies on the identity line, valueAtX(x) = x for every
\* x strictly inside the segment.
C18_IdentityLine ==
  /\ ExampleOfSpec(100) => ResultIs(ipResult, Int2Q(100))
  /\ ExampleOfSpec(5) => ipResult = None
  /\ (ipPc = "yAtX" /\ ipXLog /\ ipYLog) =>
       \A i \in 1..(Len(ipPts) - 1) :
         (/\ OnIdentityLine(ipPts, i)
          /\ StrictlyInside(ipPts, i, ipTarget)
          /\ FirstBracketing(ipPts, i, ipTarget, ipXLog)) => ResultIs(ipResult, ipTarget)

\* C18 (amended): the same, the general statement for every x > 1e-12
\* inside the segment on log-log axes and for every x inside the segment
\* on linear-linear axes.
C18_IdentityLineAboveEPS ==
  /\ ExampleOfSpec(100) => ResultIs(ipResult, Int2Q(100))
  /\ ExampleOfSpec(5) => ipResult = None
  /\ (ipPc = "yAtX" /\ ipXLog = ipYLog) =>
       \A i \in 1..(Len(ipPts) - 1) :
         (/\ OnIdentityLine(ipPts, i)
          /\ StrictlyInside(ipPts, i, ipTarget)
          /\ ipXLog => AboveEPS(ipTarget)
          /\ FirstBracketing(ipPts, i, ipTarget, ipXLog)) => ResultIs(ipResult, ipTarget)

\* C18 witness: the worked example has been evaluated at 100, and the
\* answer is 10^2
C18_Witness ==
  /\ ExampleOfSpec(100)
  /\ ipResult = Num(TRUE, LinQ(Int2Q(2)))

(***************************************************************************)
(* Claims about the axis transform.                                        *)
(***************************************************************************)
\* a degenerate range: max <= min, a non-finite bound, or a zero
\* transformed width
Degenerate(c) ==
  \/ ~IsFinite(c.min)
  \/ ~IsFinite(c.max)
  \/ Le(c.max, c.min)
  \/ tWidth(c) = LinZero

ValidRange(c) == ~Degenerate(c)

\* v strictly inside (min, max)
StrictlyInRange(v, c) == Lt(c.min, v) /\ Lt(v, c.max)

\* C19 (as stated): for both axis modes and every valid range with
\* max > min, pixelToData(dataToPixel(v)) = v for every v strictly inside
\* (min, max), on the x axis and on the flipped y axis, each whatever the
\* other axis is.
C19_RoundTrip ==
  axPc = "toData" =>
    /\ (ValidRange(axX) /\ StrictlyInRange(axV.x, axX)) => ResultIs(axBack.x, axV.x)
    /\ (ValidRange(axY) /\ StrictlyInRange(axV.y, axY)) => ResultIs(axBack.y, axV.y)

\* C19 (amended): the same for every v strictly inside (min, max) that, on
\* a log10 axis, is above 1e-12.
C19_RoundTripAboveEPS ==
  axPc = "toData" =>
    /\ (/\ ValidRange(axX)
        /\ StrictlyInRange(axV.x, axX)
        /\ axX.log => AboveEPS(axV.x)) => ResultIs(axBack.x, axV.x)
    /\ (/\ ValidRange(axY)
        /\ StrictlyInRange(axV.y, axY)
        /\ axY.log => AboveEPS(axV.y)) => ResultIs(axBack.y, axV.y)

\* C19 witness: x = 50 on the log axis 10..1000 and y = 20 on the linear
\* axis 0..100 have gone to the pixel and back
C19_Witness ==
  /\ axPc = "toData"
  /\ axX = Axis(Int2Q(10), Int2Q(1000), TRUE)
  /\ axY = Axis(Int2Q(0), Int2Q(100), FALSE)
  /\ axV = [x |-> Int2Q(50), y |-> Int2Q(20)]
  /\ axPix.py = LinQ(Q(2086, 5))
  /\ axBack = [x |-> Num(TRUE, Log10(Int2Q(50))), y |-> Num(FALSE, LinQ(Int2Q(20)))]

\* what a transform that reports its range as invalid would answer
InvalidStatus == [invalid |-> TRUE]

\* C20: with a degenerate range on either axis, dataToPixel answers an
\* invalid status, and the draw effect shows the placeholder and computes
\* the pixel coordinates of no point.
C20_DegenerateRangeIsInvalid ==
  (Degenerate(axX) \/ Degenerate(axY)) =>
    /\ axPc = "toPixel" => axPix = InvalidStatus
    /\ axPc = "drawn" => (axDrawn.placeholder /\ axDrawn.points = <<>>)

(***************************************************************************)
(* Claims about the I2t library.                                           *)
(***************************************************************************)
\* at least 2 samples of the current I0, with increasing t
ConstantCurrent(samples, I0) ==
  /\ Len(samples) >= 2
  /\ \A k \in 1..Len(samples) : samples[k].i = I0
  /\ \A k \in 1..(Len(samples) - 1) : Lt(samples[k].t, samples[k + 1].t)

\* the total duration T of the samples
Duration(samples) == Sub(samples[Len(samples)].t, samples[1].t)

\* C21 (as stated): for samples of a constant current I0 over a total
\* duration T, integrate returns I0 * I0 * T and equivalentTime(samples, I0)
\* returns T.
C21_ConstantCurrent ==
  ConstantCurrent(SamplesPassed, i2Target) =>
    /\ i2Total.run => i2Total.v = Mul(Mul(i2Target, i2Target), Duration(SamplesPassed))
    /\ i2TEq.run => i2TEq.v = Duration(SamplesPassed)

\* C21 (amended): integrate returns I0 * I0 * T, and for I0 > 0
\* equivalentTime(samples, I0) returns T.
C21_ConstantPositiveCurrent ==
  ConstantCurrent(SamplesPassed, i2Target) =>
    /\ i2Total.run => i2Total.v = Mul(Mul(i2Target, i2Target), Duration(SamplesPassed))
    /\ (i2TEq.run /\ Lt(Int2Q(0), i2Target)) => i2TEq.v = Duration(SamplesPassed)

\* C21 witness: three samples of 2 A over 3 s give 12 and 3
C21_Witness ==
  /\ i2Rows = <<Sample(Int2Q(0), Int2Q(2)), Sample(Int2Q(1), Int2Q(2)), Sample(Int2Q(3), Int2Q(2))>>
  /\ i2Target = Int2Q(2)
  /\ i2Total = Ran(Int2Q(12))
  /\ i2TEq = Ran(Int2Q(3))

OrdersOf(rows) ==
  {[k \in 1..Len(rows) |-> rows[f[k]]] : f \in Permutations(1..Len(rows))}

\* what integrate is given when the rows come in the order `rows`
PassedFrom(rows) == IF i2Parsed = NotRun THEN rows ELSE parseCsvToSamples(rows)

\* C23: the result of integrate does not depend on the order in which the
\* samples are passed, is never negative, and is 0 for fewer than 2
\* samples.
C23_OrderIndependent ==
  i2Total.run =>
    /\ \A rows \in OrdersOf(i2Rows) : integrateI2t(PassedFrom(rows)) = i2Total.v
    /\ ~Lt(i2Total.v, Int2Q(0))
    /\ Len(SamplesPassed) < 2 => i2Total.v = Int2Q(0)

(***************************************************************************)
(* Claims about the scaled lifetime curves.                                *)
(***************************************************************************)
\* the curve has the x values of base, and its y values are those of base
\* multiplied by one factor
SameXScaledY(curve, base) ==
  /\ Len(curve) = Len(base)
  /\ \A k \in 1..Len(base) : curve[k].x = base[k].x
  /\ \A j, k \in 1..Len(base) : Mul(curve[j].y, base[k].y) = Mul(curve[k].y, base[j].y)

\* C24: for one source curve and one set of drop percentages, any two
\* finite reference x values give the same derived curves, and each
\* derived curve has the x values of the base (I2t) curve and its y values
\* multiplied by one factor.
C24_RefXDoesNotScale ==
  ltResult.run =>
    /\ IsFinite(ltRefX) =>
         \A r \in RefInputs : IsFinite(r) => buildI2TSeries(ltSource, ltDrops, r) = ltResult.v
    /\ \A c \in 1..Len(ltResult.v) : SameXScaledY(ltResult.v[c].points, Converted(ltSource))

\* C24 witness: three curves of two points each have been derived at the
\* reference x = 3, where the base curve is interpolated
C24_Witness ==
  /\ ltResult.run
  /\ ltSource = <<Pt(4, 2), Pt(1, 3)>>
  /\ ltDrops = <<Int2Q(0), Int2Q(10), Int2Q(20)>>
  /\ ltRefX = Int2Q(3)
  /\ Len(ltResult.v) = 3
  /\ ltResult.v[2].points = <<XY(Int2Q(1), Q(81, 10)), XY(Int2Q(4), Q(72, 5))>>

(***************************************************************************)
(* Claims about commits, sessions, anchors, nudges, series and clicks.     *)
(***************************************************************************)
\* C25: when a commit is issued while an earlier commit has not been
\* rendered yet (both handlers read the same historyIndex), the cursor
\* equals history.length - 1 afterwards and the current document is
\* defined.
C25_CursorFollowsHistory ==
  [][
    (/\ Pending
     /\ ev.op = "commit"
     /\ \E p \in {Inner, BottomLeft} : onMouseMove(p)) =>
      /\ historyIndex' = Len(history') - 1
      /\ Defined(history', historyIndex')
    ]_vars

\* C26: for every sequence of mouse events the drag session and the
\* resize session are never active at the same time, and after a mouse-up
\* or mouse-leave neither is active.
C26_OneSessionAtATime ==
  [][
    /\ ~(dragRef'.active /\ resizeRef'.active)
    /\ onMouseUp => (~dragRef'.active /\ ~resizeRef'.active)
    ]_vars


(***************************************************************************)
(* Claims about picking a custom anchor.                                   *)
(***************************************************************************)
\* the step is an anchor pick at one of the pointer positions
PickStep ==
  \E p \in {RightHandle, Centre} :
    /\ PickBranch(Int2Q(p[1]), Int2Q(p[2]))
    /\ onMouseDown(p)

\* v lies in [0, 1]
InUnit(v) == Le(Int2Q(0), v) /\ Le(v, Int2Q(1))

\* C27: picking a custom anchor on the active layer leaves that layer's
\* draw rectangle (origin and size) as it was, whatever the layer's offset
\* and scale are, and the stored fractions fx, fy lie in [0, 1].
C27_PickKeepsDrawRect ==
  [][PickStep =>
       LET prev == PrevOf(FALSE)
           ca == Appended.customAnchors[activeBg + 1]
       IN  /\ RectOf(drawRectAndAnchor(Appended, activeBg)) =
                RectOf(drawRectAndAnchor(prev, activeBg))
           /\ InUnit(ca.fx)
           /\ InUnit(ca.fy)
    ]_vars


(***************************************************************************)
(* Claims about the points (specification SpecPoints).                     *)
(***************************************************************************)
\* a point is selected and the current document has no point there
DanglingSelection ==
  /\ ~selectedPoint.isNull
  /\ Defined(history, historyIndex)
  /\ PointOf(LiveCurrent, selectedPoint) = MissingPoint

RefersToSeries(i, st) == 0 <= i /\ i < Len(st.series)

\* C29: after any sequence of addSeries, removeSeries, undo and redo the
\* current document has between 1 and 10 series, and once the clamp effect
\* has run activeSeries and i2tSourceIndex each refer to an existing series.
C29_SeriesCountAndIndices ==
  [][
      /\ (Mounted /\ (addSeries \/ handleUndo \/ handleRedo
                      \/ \E idx \in RemoveInputs : removeSeries(idx))) =>
            /\ Defined(history', historyIndex')
            /\ 1 <= Len(LiveCurrent'.series)
            /\ Len(LiveCurrent'.series) <= 10
            /\ ~ClampPending' =>
                 /\ RefersToSeries(activeSeries', LiveCurrent')
                 /\ RefersToSeries(i2tSourceIndex', LiveCurrent')
      /\ clampEffect =>
            /\ RefersToSeries(activeSeries', LiveCurrent')
            /\ RefersToSeries(i2tSourceIndex', LiveCurrent')
            /\ ~ClampPending'
    ]_vars

\* C29 witness: a third series was added, which made it the active one and
\* the I2t source, and the addition undone; the effect has set both indices
\* to the last of the two series left
C29_Witness ==
  /\ ev = [op |-> "clampEffect", arg |-> ""]
  /\ Len(history) = 2
  /\ historyIndex = 0
  /\ Len(history[2].series) = 3
  /\ Len(LiveCurrent.series) = 2
  /\ activeSeries = 1
  /\ i2tSourceIndex = 1


(***************************************************************************)
(* Claims about clicks on the plot (specification SpecPlot).               *)
(***************************************************************************)
\* the points are in ascending order of x
SortedByX(pts) == \A i \in 1..(Len(pts) - 1) : ~DataLt(pts[i + 1].x, pts[i].x)

\* pts without its k-th point
RemoveAt(pts, k) == [i \in 1..(Len(pts) - 1) |-> IF i < k THEN pts[i] ELSE pts[i + 1]]

\* new holds the points of old and exactly one more
GainsOnePoint(old, new) ==
  /\ Len(new) = Len(old) + 1
  /\ \E k \in 1..Len(new) : SortPoints(RemoveAt(new, k)) = SortPoints(old)

\* the step added one point to the active series of prev and nothing else
OnlyActiveSeriesGrew(prev, next) ==
  /\ Len(next.series) = Len(prev.series)
  /\ activeSeries < Len(prev.series)
  /\ GainsOnePoint(prev.series[activeSeries + 1].points, next.series[activeSeries + 1].points)
  /\ SortedByX(prev.series[activeSeries + 1].points)
       => SortedByX(next.series[activeSeries + 1].points)
  /\ \A i \in 1..Len(prev.series) : i - 1 # activeSeries => next.series[i] = prev.series[i]
  /\ XAxisOf(next) = XAxisOf(prev)
  /\ YAxisOf(next) = YAxisOf(prev)
  /\ next.bgXform = prev.bgXform

\* C30: outside background-edit mode a click on the plot within the hit
\* radius of an existing point only selects that point and appends no
\* snapshot; every other click on the plot appends exactly one snapshot,
\* in which the active series has gained exactly one point and is sorted
\* by x if it was, all other series, the axes and both background
\* transforms being as before.
C30_PlotClick ==
  [][\A p \in ClickInputs :
       (~bgEditMode /\ inPlot(Int2Q(p[1]), Int2Q(p[2])) /\ onMouseDown(p)) =>
          IF ~FirstHit(LiveCurrent, Int2Q(p[1]), Int2Q(p[2])).isNull
          THEN /\ selectedPoint' = FirstHit(LiveCurrent, Int2Q(p[1]), Int2Q(p[2]))
               /\ history' = history
               /\ historyIndex' = historyIndex
          ELSE /\ history' = Append(Slice0(history, historyIndex + 1), Appended)
               /\ historyIndex' = Len(history') - 1
               /\ OnlyActiveSeriesGrew(LiveCurrent, Appended)
    ]_vars

====
